---- MODULE Spec2Model ----
(***************************************************************************)
(* Versioned-interface resolution and dynamic dispatch of the              *)
(* VirtualDesktopAccessor crate (src/src/interfaces_multi.rs and           *)
(* src/src/interfaces_multi/build_*.rs).                                   *)
(*                                                                         *)
(* Part 1: the Build Version registry (WindowsVersion::get), a process     *)
(*         wide OnceLock raced by several threads.                         *)
(* Part 2: the forwarding layer (support_interface! / forward_call!).      *)
(***************************************************************************)
EXTENDS Integers, Sequences, FiniteSets, TLC

\* ------------------------------------------------------------------ bounds
\* Number of threads that race on WindowsVersion::get.
NumThreads == 2
\* Number of WindowsVersion::get calls each thread makes.
MaxGets == 2
\* Number of forwarded calls the calling thread makes one after the other.
MaxCalls == 2

\* --------------------------------------------------------- program constants
\* windows::Win32::Foundation::E_NOTIMPL, the HRESULT 0x80004001 as an i32.
E_NOTIMPL == -2147467263

\* ------------------------------------------------------------------- u32
\* A u32 is kept as two 16-bit limbs <<high, low>>, so that every value up to
\* u32::MAX is at hand.
U32(n) == <<n \div 65536, n % 65536>>
U32_MAX == <<65535, 65535>>
u32_le(a, b) == a[1] < b[1] \/ (a[1] = b[1] /\ a[2] <= b[2])
u32_lt(a, b) == a[1] < b[1] \/ (a[1] = b[1] /\ a[2] < b[2])

\* ------------------------------------------------------ declared versions
\* declare_versions!( mod build_10240; ... ): the module names, in the order
\* of declaration, each spelled as the characters of stringify!($version).
VersionNames ==
  << <<"b","u","i","l","d","_","1","0","2","4","0">>,
     <<"b","u","i","l","d","_","1","6","2","9","9">>,
     <<"b","u","i","l","d","_","1","7","1","3","4">>,
     <<"b","u","i","l","d","_","1","9","0","4","5">>,
     <<"b","u","i","l","d","_","2","0","3","4","8">>,
     <<"b","u","i","l","d","_","2","2","0","0","0">>,
     <<"b","u","i","l","d","_","2","2","6","2","1","_","2","2","1","5">>,
     <<"b","u","i","l","d","_","2","2","6","2","1","_","3","1","5","5">>,
     <<"b","u","i","l","d","_","2","2","6","3","1","_","2","4","2","8">>,
     <<"b","u","i","l","d","_","2","2","6","3","1","_","3","1","5","5">>
  >>

\* enum WindowsVersion { $($version,)* } with derive(PartialOrd, Ord): a value
\* is the index of its variant, and the derived order is the index order.
WindowsVersion == 1..Len(VersionNames)

\* Mutant of ALL: the first two versions are listed in the other order.
ALL_swapped ==
  [i \in 1..Len(VersionNames) |-> IF i = 1 THEN 2 ELSE IF i = 2 THEN 1 ELSE i]

\* const ALL: &'static [Self] = &[$(Self::$version,)*];
ALL == [i \in 1..Len(VersionNames) |-> i]

\* const fn as_str(&self): stringify!($version)
as_str(v) == VersionNames[v]

\* Option<T>: None is <<>>, Some(x) is <<x>>.
None == <<>>
Some(x) == <<x>>
IsSome(o) == Len(o) = 1
unwrap_or(o, d) == IF IsSome(o) THEN o[1] ELSE d

\* ---------------------------------------------------------------- parsing
Digits == <<"0","1","2","3","4","5","6","7","8","9">>
IsDigit(c) == \E i \in 1..10 : Digits[i] = c
DigitVal(c) == (CHOOSE i \in 1..10 : Digits[i] = c) - 1

\* str::split_once(delim): the text before and after the first delimiter.
split_once(s, delim) ==
  IF \E i \in 1..Len(s) : s[i] = delim
  THEN LET i == CHOOSE k \in 1..Len(s) :
                  s[k] = delim /\ \A j \in 1..(k-1) : s[j] # delim
       IN  Some(<<SubSeq(s, 1, i-1), SubSeq(s, i+1, Len(s))>>)
  ELSE None

\* <u32 as FromStr>::from_str: Err (here <<>>) on an empty text, on a
\* character that is no digit and on overflow.
RECURSIVE ParseDigits(_, _)
ParseDigits(s, acc) ==
  IF s = <<>> THEN Some(acc)
  ELSE IF ~IsDigit(Head(s)) THEN None
  ELSE LET low  == acc[2] * 10 + DigitVal(Head(s))
           high == acc[1] * 10 + (low \div 65536)
       IN  IF high > 65535 THEN None
           ELSE ParseDigits(Tail(s), <<high, low % 65536>>)

parse_u32(s) ==
  IF s = <<>> THEN None
  ELSE IF Head(s) = "+" THEN (IF Len(s) = 1 THEN None ELSE ParseDigits(Tail(s), U32(0)))
  ELSE ParseDigits(s, U32(0))

\* fn windows_version(&self) -> (u32, u32); None stands for the panic of one
\* of its expect() calls.
windows_version(v) ==
  LET first == split_once(as_str(v), "_")
  IN  IF ~IsSome(first) THEN None
      ELSE LET version == first[1][2]
               second  == split_once(version, "_")
               build   == IF IsSome(second) THEN second[1][1] ELSE version
               patch   == IF IsSome(second) THEN second[1][2] ELSE <<"0">>
           IN  IF ~IsSome(parse_u32(build)) \/ ~IsSome(parse_u32(patch))
               THEN None
               ELSE Some(<<parse_u32(build)[1], parse_u32(patch)[1]>>)

\* Mutant of WindowsVersion_default: the first declared version, not the last.
WindowsVersion_default_first == ALL[1]

\* impl Default for WindowsVersion: *Self::ALL.last()
WindowsVersion_default == ALL[Len(ALL)]

\* (u32, u32) as PartialOrd: lexicographic.
TupleLe(a, b) == u32_lt(a[1], b[1]) \/ (a[1] = b[1] /\ u32_le(a[2], b[2]))
TupleLt(a, b) == u32_lt(a[1], b[1]) \/ (a[1] = b[1] /\ u32_lt(a[2], b[2]))

\* i32::from_le_bytes(buffer)
i32_from_le_bytes(buffer) ==
  buffer[1] + 256 * buffer[2] + 65536 * buffer[3]
    + 16777216 * (IF buffer[4] >= 128 THEN buffer[4] - 256 ELSE buffer[4])

\* u32::try_from(i32).ok()
u32_try_from(x) == IF x < 0 THEN None ELSE Some(U32(x))

\* Mutant of read_patch_version_from_registry: an unavailable patch is read
\* as patch 0.
read_patch_version_from_registry_zero(ubr) ==
  IF ~IsSome(ubr) THEN Some(U32(0))
  ELSE LET patch_version == i32_from_le_bytes(ubr[1])
       IN  IF IsSome(u32_try_from(patch_version))
           THEN u32_try_from(patch_version)
           ELSE Some(U32(0))

\* fn read_patch_version_from_registry() -> Option<u32>; ubr is what
\* RegGetValueW answers: None for an error status, Some(buffer) with the four
\* bytes it wrote otherwise.
read_patch_version_from_registry(ubr) ==
  IF ~IsSome(ubr) THEN None
  ELSE LET patch_version == i32_from_le_bytes(ubr[1])
       IN  u32_try_from(patch_version)

\* Iterator::max_by_key over the (version, key) pairs that pass the filter:
\* the last element with the maximal key, None for an empty iterator.
RECURSIVE max_by_key(_, _)
max_by_key(items, best) ==
  IF items = <<>> THEN best
  ELSE LET x == Head(items)
       IN  max_by_key(Tail(items),
                      IF ~IsSome(best) \/ TupleLe(best[1][2], x[2])
                      THEN Some(x) ELSE best)

\* Mutant of filter_supported: a strict comparison, so that the version
\* declared for exactly the detected build is filtered out.
filter_supported_strict(all, dwBuildNumber, patch_version) ==
  SelectSeq([i \in 1..Len(all) |-> <<all[i], windows_version(all[i])[1]>>],
            LAMBDA p : TupleLt(p[2], <<dwBuildNumber, unwrap_or(patch_version, U32_MAX)>>))

\* The filter of WindowsVersion::get: only interfaces from the previous or
\* the current Windows version.
filter_supported(all, dwBuildNumber, patch_version) ==
  SelectSeq([i \in 1..Len(all) |-> <<all[i], windows_version(all[i])[1]>>],
            LAMBDA p : TupleLe(p[2], <<dwBuildNumber, unwrap_or(patch_version, U32_MAX)>>))

\* Option<WindowsVersion>::unwrap_or_default()
unwrap_or_default(o) == IF IsSome(o) THEN o[1] ELSE WindowsVersion_default

\* latest_supported of WindowsVersion::get, after RtlGetVersion succeeded.
latest_supported(all, dwBuildNumber, patch_version) ==
  LET found == max_by_key(filter_supported(all, dwBuildNumber, patch_version), None)
  IN  unwrap_or_default(IF IsSome(found) THEN Some(found[1][1]) ELSE None)

\* ------------------------------------------------------------ environment
\* The Windows releases the process may run on: what RtlGetVersion reports.
OsReleases ==
  { [major |-> 6,  minor |-> 3, build |-> 9600],
    [major |-> 10, minor |-> 0, build |-> 10240],
    [major |-> 10, minor |-> 0, build |-> 16299],
    [major |-> 10, minor |-> 0, build |-> 17763],
    [major |-> 10, minor |-> 0, build |-> 19045],
    [major |-> 10, minor |-> 0, build |-> 20348],
    [major |-> 10, minor |-> 0, build |-> 22000],
    [major |-> 10, minor |-> 0, build |-> 22621],
    [major |-> 10, minor |-> 0, build |-> 22631],
    [major |-> 10, minor |-> 0, build |-> 26100] }

\* What RegGetValueW may answer for the UBR value.
UbrAnswers ==
  { None,
    Some(<<0, 0, 0, 0>>),           \* 0
    Some(<<167, 8, 0, 0>>),         \* 2215
    Some(<<124, 9, 0, 0>>),         \* 2428
    Some(<<83, 12, 0, 0>>),         \* 3155
    Some(<<255, 255, 255, 255>>) }  \* -1 as an i32

\* The machines: whether RtlGetVersion succeeds, the release, the UBR value.
Machines == [rtl_ok : BOOLEAN, release : OsReleases, ubr : UbrAnswers]

\* The machines the forwarding layer is run on: every declared version is
\* resolved on one of them.
DispatchMachines ==
  { m \in Machines : m.ubr \in {None, Some(<<124, 9, 0, 0>>)} }

Threads == 1..NumThreads

VARIABLES
  os,             \* the machine: RtlGetVersion's status and answer, the UBR value
  INIT,           \* static INIT: OnceLock<WindowsVersion> of WindowsVersion::get
  pc,             \* where each thread is
  version,        \* the OSVERSIONINFOW local of the closure, per thread
  patch_version,  \* the patch_version local of the closure, per thread
  result,         \* the value the closure is about to return, per thread
  rets,           \* what WindowsVersion::get returned to each thread, in order
  rtl_calls,      \* number of RtlGetVersion calls made so far
  reg_calls,      \* number of RegGetValueW calls made so far
  closure_runs,   \* number of times the closure of get_or_init was entered
  call,           \* the forwarded call or lookup the calling thread is in, or its last one
  calls_made,     \* number of forwarded calls and lookups begun so far
  missing_module, \* the tables of the consulted module whose file is not at hand
  com,            \* one COM object: its reference count and the handles to it
  sink,           \* the notification sink: the callback the shell is making on it
  listener,       \* the listener thread, its wrapper and the shell's registrations
  audit           \* the comparison of two declared method tables, slot by slot

regVars == <<os, INIT, pc, version, patch_version, result, rets,
             rtl_calls, reg_calls, closure_runs>>

dispVars == <<call, calls_made, missing_module>>

objVars == <<com, sink, listener, audit>>

vars == <<regVars, dispVars, objVars>>

NoVersion == [dwMajorVersion |-> U32(0), dwMinorVersion |-> U32(0),
              dwBuildNumber |-> U32(0)]

\* The thread that makes the forwarded calls.
Caller == CHOOSE t \in Threads : \A u \in Threads : t <= u

\* No COM object was handed out yet.
NoObject == [refcount |-> 0, shell |-> 0, owning |-> <<>>, borrowed |-> <<>>,
             op |-> "none"]

\* No notification sink was built yet.
NoSink == [stage |-> "none", module |-> "", fname |-> "", args |-> <<>>,
           stable |-> <<>>, raised |-> "none", events |-> <<>>, ret |-> None]

\* The listener thread was not spawned yet.
NoListener ==
  [stage |-> "none", new_result |-> "none", wrapper |-> None,
   connected |-> FALSE, quit |-> FALSE, shell |-> "up", held |-> {},
   last |-> [op |-> "none", cookie |-> 0, ok |-> FALSE, held |-> {}],
   outstanding |-> {}, stray |-> FALSE, first |-> "none", failures |-> 0,
   reported |-> FALSE, control |-> FALSE, thread |-> FALSE, stopper |-> "idle",
   stops |-> 0, sent |-> 0, joined |-> 0, stop_result |-> "none",
   ticks |-> 0]

\* No forwarded call was made yet.
NoCall == [kind |-> "none", iface |-> "", fname |-> "", optional |-> FALSE,
           args |-> <<>>, stage |-> "none", win_ver |-> 0, arm |-> 0,
           shapes |-> <<>>, fwd |-> <<>>, concrete |-> <<>>, vtable |-> <<>>,
           status |-> None, ret |-> None]

\* Thread t called WindowsVersion::get from the dispatch layer, not directly.
InDispatch(t) == t = Caller /\ call.stage \in {"self", "arg"}

\* WindowsVersion::get returns v to thread t: to the dispatch step that
\* called it, or to the thread's own list of direct calls.
Return(t, v, how) ==
  IF InDispatch(t)
  THEN /\ call' = [call EXCEPT !.win_ver = v]
       /\ pc' = [pc EXCEPT ![t] = "match"]
       /\ UNCHANGED rets
  ELSE /\ rets' = [rets EXCEPT ![t] = Append(@, [value |-> v, how |-> how])]
       /\ pc' = [pc EXCEPT ![t] = "idle"]
       /\ UNCHANGED call

\* No two method tables are being compared.
NoAudit ==
  [stage |-> "none", iface |-> "", v1 |-> 0, v2 |-> 0, slot |-> 0,
   agree |-> TRUE]

RegInit(machines, position) ==
  /\ os \in machines
  /\ INIT = [state |-> "Incomplete", value |-> None]
  /\ pc = position
  /\ version = [t \in Threads |-> NoVersion]
  /\ patch_version = [t \in Threads |-> None]
  /\ result = [t \in Threads |-> None]
  /\ rets = [t \in Threads |-> <<>>]
  /\ rtl_calls = 0
  /\ reg_calls = 0
  /\ closure_runs = 0
  /\ call = NoCall
  /\ calls_made = 0
  /\ missing_module = None
  /\ com = NoObject
  /\ sink = NoSink
  /\ listener = NoListener
  /\ audit = NoAudit

\* A thread enters WindowsVersion::get() when it is between two direct calls
\* and has calls left to make, or when a dispatch step calls it.
CallsGet(t) == (pc[t] = "idle" /\ Len(rets[t]) < MaxGets) \/ pc[t] = "get"

\* Mutant of get_fast: no memoization, an initialized cell is resolved anew.
get_fast_requery(t) ==
  /\ CallsGet(t)
  /\ INIT.state = "Complete"
  /\ closure_runs' = closure_runs + 1
  /\ version' = [version EXCEPT ![t] = NoVersion]
  /\ pc' = [pc EXCEPT ![t] = "rtl"]
  /\ UNCHANGED <<objVars, os, INIT, patch_version, result, rets, rtl_calls, reg_calls, dispVars>>

\* OnceLock::get_or_init, the cell is initialized: the stored value is
\* returned and the closure is not called.
get_fast(t) ==
  /\ CallsGet(t)
  /\ INIT.state = "Complete"
  /\ Return(t, INIT.value[1], "fast")
  /\ UNCHANGED <<objVars, os, INIT, version, patch_version, result,
                 rtl_calls, reg_calls, closure_runs, calls_made, missing_module>>

\* OnceLock::get_or_init, the cell is empty and no thread is initializing
\* it: this thread runs the closure.
get_init(t) ==
  /\ CallsGet(t)
  /\ INIT.state = "Incomplete"
  /\ INIT' = [INIT EXCEPT !.state = "Running"]
  /\ closure_runs' = closure_runs + 1
  /\ version' = [version EXCEPT ![t] = NoVersion]
  /\ pc' = [pc EXCEPT ![t] = "rtl"]
  /\ UNCHANGED <<objVars, os, patch_version, result, rets, rtl_calls, reg_calls, dispVars>>

\* Mutant of get_block: no mutual exclusion, a second thread that finds the
\* cell being initialized runs the closure as well.
get_block_racy(t) ==
  /\ CallsGet(t)
  /\ INIT.state = "Running"
  /\ closure_runs' = closure_runs + 1
  /\ version' = [version EXCEPT ![t] = NoVersion]
  /\ pc' = [pc EXCEPT ![t] = "rtl"]
  /\ UNCHANGED <<objVars, os, INIT, patch_version, result, rets, rtl_calls, reg_calls, dispVars>>

\* OnceLock::get_or_init, another thread is running the closure: wait.
get_block(t) ==
  /\ CallsGet(t)
  /\ INIT.state = "Running"
  /\ pc' = [pc EXCEPT ![t] = "blocked"]
  /\ UNCHANGED <<objVars, os, INIT, version, patch_version, result, rets,
                 rtl_calls, reg_calls, closure_runs, dispVars>>

\* The waiting thread is woken once the cell is initialized.
get_wake(t) ==
  /\ pc[t] = "blocked"
  /\ INIT.state = "Complete"
  /\ Return(t, INIT.value[1], "waited")
  /\ UNCHANGED <<objVars, os, INIT, version, patch_version, result,
                 rtl_calls, reg_calls, closure_runs, calls_made, missing_module>>

\* let res = RtlGetVersion(&mut version); if res.is_err() { return Default::default(); }
RtlGetVersion(t) ==
  /\ pc[t] = "rtl"
  /\ rtl_calls' = rtl_calls + 1
  /\ IF os.rtl_ok
     THEN /\ version' = [version EXCEPT ![t] =
                           [dwMajorVersion |-> U32(os.release.major),
                            dwMinorVersion |-> U32(os.release.minor),
                            dwBuildNumber  |-> U32(os.release.build)]]
          /\ pc' = [pc EXCEPT ![t] = "reg"]
          /\ UNCHANGED result
     ELSE /\ result' = [result EXCEPT ![t] = Some(WindowsVersion_default)]
          /\ pc' = [pc EXCEPT ![t] = "store"]
          /\ UNCHANGED version
  /\ UNCHANGED <<objVars, os, INIT, patch_version, rets, reg_calls, closure_runs, dispVars>>

\* let patch_version = Self::read_patch_version_from_registry();
ReadPatchVersion(t) ==
  /\ pc[t] = "reg"
  /\ reg_calls' = reg_calls + 1
  /\ patch_version' = [patch_version EXCEPT ![t] =
                         read_patch_version_from_registry(os.ubr)]
  /\ pc' = [pc EXCEPT ![t] = "select"]
  /\ UNCHANGED <<objVars, os, INIT, version, result, rets, rtl_calls, closure_runs, dispVars>>

\* let latest_supported = Self::ALL.iter()...unwrap_or_default(); a panic of
\* windows_version unwinds out of get_or_init and leaves the cell empty.
SelectLatest(t) ==
  /\ pc[t] = "select"
  /\ IF \E i \in 1..Len(ALL) : ~IsSome(windows_version(ALL[i]))
     THEN /\ pc' = [pc EXCEPT ![t] = "panic"]
          /\ INIT' = [INIT EXCEPT !.state = "Incomplete"]
          /\ UNCHANGED result
     ELSE /\ result' = [result EXCEPT ![t] =
                          Some(latest_supported(ALL, version[t].dwBuildNumber,
                                                patch_version[t]))]
          /\ pc' = [pc EXCEPT ![t] = "store"]
          /\ UNCHANGED INIT
  /\ UNCHANGED <<objVars, os, version, patch_version, rets, rtl_calls, reg_calls, closure_runs, dispVars>>

\* The closure returned: the cell takes the value and get_or_init returns it.
once_store(t) ==
  /\ pc[t] = "store"
  /\ INIT' = [state |-> "Complete", value |-> result[t]]
  /\ Return(t, result[t][1], "init")
  /\ UNCHANGED <<objVars, os, version, patch_version, result, rtl_calls, reg_calls,
                 closure_runs, calls_made, missing_module>>

\* ============================================ part 2: the forwarding layer
\* ------------------------------------------- the version-independent methods
\* A method of an abstract interface: its name, whether it is declared with
\* #[optional_method], and the kind of each parameter after &self. "ComIn" is
\* a borrowed abstract handle (ComIn<IVirtualDesktop>, ComIn<IApplicationView>),
\* "ptr" a raw pointer (an output pointer, a *const GUID), "val" a value that
\* every build takes as it is (UINT, HWND, HSTRING, PCWSTR, ...).
Method(iface, fname, optional, params) ==
  [iface |-> iface, fname |-> fname, optional |-> optional, params |-> params]

\* #[apply(forward_call)] impl IVirtualDesktop
IVirtualDesktop ==
  { Method("IVirtualDesktop", "is_view_visible", FALSE, <<"ComIn", "ptr">>),
    Method("IVirtualDesktop", "get_id", FALSE, <<"ptr">>),
    Method("IVirtualDesktop", "get_name", TRUE, <<"ptr">>),
    Method("IVirtualDesktop", "get_wallpaper", TRUE, <<"ptr">>) }

\* #[apply(forward_call)] impl IApplicationViewCollection
IApplicationViewCollection ==
  { Method("IApplicationViewCollection", "get_views", FALSE, <<"ptr">>),
    Method("IApplicationViewCollection", "get_views_by_zorder", FALSE, <<"ptr">>),
    Method("IApplicationViewCollection", "get_views_by_app_user_model_id", FALSE,
           <<"val", "ptr">>),
    Method("IApplicationViewCollection", "get_view_for_hwnd", FALSE, <<"val", "ptr">>),
    Method("IApplicationViewCollection", "get_view_for_application", FALSE,
           <<"val", "ptr">>),
    Method("IApplicationViewCollection", "get_view_for_app_user_model_id", FALSE,
           <<"val", "ptr">>),
    Method("IApplicationViewCollection", "get_view_in_focus", FALSE, <<"ptr">>),
    Method("IApplicationViewCollection", "try_get_last_active_visible_view", TRUE,
           <<"ptr">>),
    Method("IApplicationViewCollection", "refresh_collection", FALSE, <<>>),
    Method("IApplicationViewCollection", "register_for_application_view_changes",
           FALSE, <<"val", "ptr">>),
    Method("IApplicationViewCollection", "unregister_for_application_view_changes",
           FALSE, <<"val">>) }

\* #[apply(forward_call)] impl IVirtualDesktopManagerInternal
IVirtualDesktopManagerInternal ==
  { Method("IVirtualDesktopManagerInternal", "get_desktop_count", FALSE, <<"ptr">>),
    Method("IVirtualDesktopManagerInternal", "move_view_to_desktop", FALSE,
           <<"ComIn", "ComIn">>),
    Method("IVirtualDesktopManagerInternal", "can_move_view_between_desktops", FALSE,
           <<"ComIn", "ptr">>),
    Method("IVirtualDesktopManagerInternal", "get_current_desktop", FALSE, <<"ptr">>),
    Method("IVirtualDesktopManagerInternal", "get_desktops", FALSE, <<"ptr">>),
    Method("IVirtualDesktopManagerInternal", "get_adjacent_desktop", FALSE,
           <<"ComIn", "val", "ptr">>),
    Method("IVirtualDesktopManagerInternal", "switch_desktop", FALSE, <<"ComIn">>),
    Method("IVirtualDesktopManagerInternal", "create_desktop", FALSE, <<"ptr">>),
    Method("IVirtualDesktopManagerInternal", "move_desktop", TRUE, <<"ComIn", "val">>),
    Method("IVirtualDesktopManagerInternal", "remove_desktop", FALSE,
           <<"ComIn", "ComIn">>),
    Method("IVirtualDesktopManagerInternal", "find_desktop", FALSE, <<"ptr", "ptr">>),
    Method("IVirtualDesktopManagerInternal", "get_desktop_switch_include_exclude_views",
           TRUE, <<"ComIn", "ptr", "ptr">>),
    Method("IVirtualDesktopManagerInternal", "set_name", TRUE, <<"ComIn", "val">>),
    Method("IVirtualDesktopManagerInternal", "set_wallpaper", TRUE, <<"ComIn", "val">>),
    Method("IVirtualDesktopManagerInternal", "update_wallpaper_for_all", TRUE,
           <<"val">>) }

\* The forwarded methods of the three abstract interfaces that have optional
\* methods.
AbstractMethods ==
  IVirtualDesktop \cup IApplicationViewCollection \cup IVirtualDesktopManagerInternal

Interfaces == { m.iface : m \in AbstractMethods }

\* ------------------------------------------------ the per-build definitions
\* The vtable slots of the interfaces build_10240 defines.
build_10240(iface) ==
  CASE iface = "IVirtualDesktop" -> {"is_view_visible", "get_id"}
    [] iface = "IApplicationViewCollection" ->
         {"get_views", "get_views_by_zorder", "get_views_by_app_user_model_id",
          "get_view_for_hwnd", "get_view_for_application",
          "get_view_for_app_user_model_id", "get_view_in_focus",
          "refresh_collection", "register_for_application_view_changes",
          "register_for_application_view_position_changes",
          "unregister_for_application_view_changes"}
    [] iface = "IVirtualDesktopManagerInternal" ->
         {"get_desktop_count", "move_view_to_desktop",
          "can_move_view_between_desktops", "get_current_desktop", "get_desktops",
          "get_adjacent_desktop", "switch_desktop", "create_desktop",
          "remove_desktop", "find_desktop"}

\* The vtable slots of the interfaces build_22000 defines; the view
\* collection is the one of build_10240.
build_22000(iface) ==
  CASE iface = "IVirtualDesktop" ->
         {"is_view_visible", "get_id", "get_monitor", "get_name", "get_wallpaper"}
    [] iface = "IApplicationViewCollection" -> build_10240(iface)
    [] iface = "IVirtualDesktopManagerInternal" ->
         {"get_desktop_count_m", "move_view_to_desktop",
          "can_move_view_between_desktops", "get_current_desktop_m",
          "get_all_current_desktops", "get_desktops_m", "get_adjacent_desktop",
          "switch_desktop_m", "create_desktop_m", "move_desktop_m",
          "remove_desktop", "find_desktop",
          "get_desktop_switch_include_exclude_views", "set_name", "set_wallpaper",
          "update_wallpaper_for_all", "copy_desktop_state",
          "get_desktop_is_per_monitor", "set_desktop_is_per_monitor"}

\* impl IVirtualDesktopManagerInternal of build_22000: the inherent methods
\* that keep the names without a monitor. Each calls one slot and puts the
\* monitor it passes at one place of the slot's parameters.
build_22000_impl(iface) ==
  IF iface = "IVirtualDesktopManagerInternal"
  THEN [get_desktop_count   |-> [slot |-> "get_desktop_count_m", monitor_at |-> 1, monitor |-> 0],
        get_current_desktop |-> [slot |-> "get_current_desktop_m", monitor_at |-> 1, monitor |-> 0],
        get_desktops        |-> [slot |-> "get_desktops_m", monitor_at |-> 1, monitor |-> 0],
        switch_desktop      |-> [slot |-> "switch_desktop_m", monitor_at |-> 1, monitor |-> 0],
        create_desktop      |-> [slot |-> "create_desktop_m", monitor_at |-> 1, monitor |-> 0],
        move_desktop        |-> [slot |-> "move_desktop_m", monitor_at |-> 2, monitor |-> 0]]
  ELSE <<>>

\* The vtable slots of the interfaces build_22621_2215 defines; the view
\* collection is the one of build_10240.
build_22621_2215(iface) ==
  CASE iface = "IVirtualDesktop" ->
         {"is_view_visible", "get_id", "get_name", "get_wallpaper", "is_remote"}
    [] iface = "IApplicationViewCollection" -> build_10240(iface)
    [] iface = "IVirtualDesktopManagerInternal" ->
         {"get_desktop_count", "move_view_to_desktop",
          "can_move_view_between_desktops", "get_current_desktop", "get_desktops",
          "get_adjacent_desktop", "switch_desktop", "create_desktop",
          "move_desktop", "remove_desktop", "find_desktop",
          "get_desktop_switch_include_exclude_views", "set_name", "set_wallpaper",
          "update_wallpaper_for_all", "copy_desktop_state",
          "create_remote_desktop", "switch_remote_desktop",
          "switch_desktop_with_animation", "get_last_active_desktop",
          "wait_for_animation_to_complete"}

\* The modules whose interface definitions are at hand.
Defined == {"build_10240", "build_22000", "build_22621_2215"}

\* For each declared version, in the order of declaration, the module that
\* holds the definitions of its interfaces: its own, or the one whose macros
\* the module calls (build_17134 and build_19045: "use ... as prev_build",
\* build_22631_2428: "use build_22621_3155 as build_prev").
TableModule ==
  << "build_10240", "build_16299", "build_16299", "build_10240", "build_20348",
     "build_22000", "build_22621_2215", "build_22621_3155", "build_22621_3155",
     "build_22631_3155" >>

\* The definitions a version's calls go to. The file of build_16299,
\* build_20348, build_22621_3155 and build_22631_3155 is not at hand: such a
\* module is taken to define its interfaces like one of the modules at hand,
\* whichever (unknown).
TablesOf(v, unknown) ==
  IF TableModule[v] \in Defined THEN TableModule[v] ELSE unknown

\* The vtable slots of an interface as a module defines it.
vtable(module, iface) ==
  CASE module = "build_10240" -> build_10240(iface)
    [] module = "build_22000" -> build_22000(iface)
    [] module = "build_22621_2215" -> build_22621_2215(iface)

\* The inherent methods a module adds to an interface.
inherent(module, iface) ==
  IF module = "build_22000" THEN build_22000_impl(iface) ELSE <<>>

\* Method resolution of (*v).$fname(..) on the versioned type: an inherent
\* method of that name exists, generated for a slot or written in an impl.
has_method(module, iface, fname) ==
  fname \in vtable(module, iface) \/ fname \in DOMAIN inherent(module, iface)

\* ------------------------------------------------------ forwarding a call
\* Mutant of FallbackNotImpl: the fallback reports success.
FallbackNotImpl_ok(args) == 0

\* impl<T> __FallbackNotImpl for T: fn $fname(&self, _: $ArgTy, ..) { E_NOTIMPL }
FallbackNotImpl(args) == E_NOTIMPL

\* Mutant of from_raw: every handle is cast to the first version's type.
from_raw_first(win_ver) == Some(ALL[1])

\* $state::from_raw: match win_ver { $version => $state::$version(..), .. },
\* with one arm per declared version (all_versions: true); None stands for
\* the unreachable!() of the default arm.
from_raw(win_ver) ==
  IF \E i \in 1..Len(ALL) : ALL[i] = win_ver THEN Some(win_ver) ELSE None

\* Mutant of ForwardArg_forward: a null argument is passed on.
ForwardArg_forward_null(arg) == [arg EXCEPT !.val = 0]

\* ForwardArg::forward: the argument itself, a pointer cast to the versioned
\* pointee at the same address, a handle as the same object.
ForwardArg_forward(arg) == arg

\* Mutant of with_monitor: a monitor that is not null is passed.
with_monitor_nonnull(args, at, monitor) ==
  SubSeq(args, 1, at - 1) \o <<[kind |-> "monitor", val |-> monitor + 1]>>
    \o SubSeq(args, at, Len(args))

\* self.$slot(.., monitor, ..): the arguments of a slot that takes a monitor.
with_monitor(args, at, monitor) ==
  SubSeq(args, 1, at - 1) \o <<[kind |-> "monitor", val |-> monitor]>>
    \o SubSeq(args, at, Len(args))

\* (*v).$fname(args) on the versioned type: the vtable slots it invokes, with
\* their arguments.
call_method(module, iface, fname, args) ==
  IF fname \in DOMAIN inherent(module, iface)
  THEN LET f == inherent(module, iface)[fname]
       IN  <<[slot |-> f.slot, args |-> with_monitor(args, f.monitor_at, f.monitor)]>>
  ELSE <<[slot |-> fname, args |-> args]>>

\* The argument values of a call: parameter i takes the value base + i.
ArgBases == {10, 20}

\* The HRESULTs the shell may answer: S_OK and E_FAIL.
Statuses == {0, -2147467259}

\* The calling thread calls a forwarded method of an abstract handle: the
\* macro $name!(self, |v| ..) starts with $state::from_typed(&self).
forward_call(t) ==
  /\ pc[t] = "app"
  /\ calls_made < MaxCalls
  /\ \E m \in AbstractMethods : \E base \in ArgBases :
       call' = [NoCall EXCEPT
                  !.kind = "method", !.iface = m.iface, !.fname = m.fname,
                  !.optional = m.optional,
                  !.args = [i \in 1..Len(m.params) |->
                              [kind |-> m.params[i], val |-> base + i]],
                  !.stage = "self"]
  /\ calls_made' = calls_made + 1
  /\ pc' = [pc EXCEPT ![t] = "get"]
  /\ UNCHANGED <<objVars, os, INIT, version, patch_version, result, rets,
                 rtl_calls, reg_calls, closure_runs, missing_module>>

\* pub fn IID() -> GUID { match WindowsVersion::get() { .. } }
IID(t) ==
  /\ pc[t] = "app"
  /\ calls_made < MaxCalls
  /\ \E iface \in Interfaces :
       call' = [NoCall EXCEPT !.kind = "IID", !.iface = iface, !.stage = "self"]
  /\ calls_made' = calls_made + 1
  /\ pc' = [pc EXCEPT ![t] = "get"]
  /\ UNCHANGED <<objVars, os, INIT, version, patch_version, result, rets,
                 rtl_calls, reg_calls, closure_runs, missing_module>>

\* fn with_versioned_type(callback: F) -> Option<R> { match WindowsVersion::get() { .. } }
with_versioned_type(t) ==
  /\ pc[t] = "app"
  /\ calls_made < MaxCalls
  /\ \E iface \in Interfaces :
       call' = [NoCall EXCEPT !.kind = "with_versioned_type", !.iface = iface,
                              !.stage = "self"]
  /\ calls_made' = calls_made + 1
  /\ pc' = [pc EXCEPT ![t] = "get"]
  /\ UNCHANGED <<objVars, os, INIT, version, patch_version, result, rets,
                 rtl_calls, reg_calls, closure_runs, missing_module>>

\* The match of IID and of with_versioned_type: the arm of the version that
\* WindowsVersion::get returned gives the IID, or the type the callback is
\* called with.
match_version(t) ==
  /\ pc[t] = "match"
  /\ call.kind \in {"IID", "with_versioned_type"}
  /\ call' = [call EXCEPT !.arm = call.win_ver, !.shapes = <<call.win_ver>>,
                          !.stage = "done"]
  /\ pc' = [pc EXCEPT ![t] = "app"]
  /\ UNCHANGED <<objVars, os, INIT, version, patch_version, result, rets,
                 rtl_calls, reg_calls, closure_runs, calls_made, missing_module>>

\* The modules the tables of version v may be: its own when the file is at
\* hand, else the one consulted before, else any.
ModuleChoices(v) ==
  IF TableModule[v] \in Defined THEN {TableModule[v]}
  ELSE IF IsSome(missing_module) THEN {missing_module[1]}
  ELSE Defined

\* match $state::from_typed(&self) { $state::$version(v) => (*v).$fname(..) }:
\* the handle is cast to the type of the version WindowsVersion::get
\* returned. An optional method the versioned type does not have resolves to
\* the fallback, which returns at once; any other goes on to forward its
\* arguments.
from_typed(t) ==
  /\ pc[t] = "match"
  /\ call.kind = "method"
  /\ call.stage = "self"
  /\ LET arm == from_raw(call.win_ver)
     IN  IF ~IsSome(arm)
         THEN /\ call' = [call EXCEPT !.stage = "panic"]
              /\ pc' = [pc EXCEPT ![t] = "panic"]
              /\ UNCHANGED missing_module
         ELSE \E module \in ModuleChoices(arm[1]) :
                /\ missing_module' = IF TableModule[arm[1]] \in Defined
                                     THEN missing_module ELSE Some(module)
                /\ IF call.optional /\ ~has_method(module, call.iface, call.fname)
                   THEN /\ call' = [call EXCEPT
                                      !.arm = arm[1],
                                      !.shapes = Append(@, arm[1]),
                                      !.ret = Some(FallbackNotImpl(call.args)),
                                      !.stage = "done"]
                        /\ pc' = [pc EXCEPT ![t] = "app"]
                   ELSE /\ call' = [call EXCEPT
                                      !.arm = arm[1],
                                      !.shapes = Append(@, arm[1]),
                                      !.stage = "forward"]
                        /\ pc' = [pc EXCEPT ![t] = "forward"]
  /\ UNCHANGED <<objVars, os, INIT, version, patch_version, result, rets,
                 rtl_calls, reg_calls, closure_runs, calls_made>>

\* ForwardArg::forward($arg_name) of the next argument, left to right: a
\* handle is converted through $state::from_typed, which calls
\* WindowsVersion::get; anything else is passed on as it is.
forward_arg(t) ==
  /\ pc[t] = "forward"
  /\ Len(call.fwd) < Len(call.args)
  /\ LET arg == call.args[Len(call.fwd) + 1]
     IN  IF arg.kind = "ComIn"
         THEN /\ call' = [call EXCEPT !.stage = "arg"]
              /\ pc' = [pc EXCEPT ![t] = "get"]
         ELSE /\ call' = [call EXCEPT !.fwd = Append(@, ForwardArg_forward(arg))]
              /\ UNCHANGED pc
  /\ UNCHANGED <<objVars, os, INIT, version, patch_version, result, rets,
                 rtl_calls, reg_calls, closure_runs, calls_made, missing_module>>

\* impl From<ComIn<$name>> for ComIn<self::$version::$name>:
\* if let $state::$version(v) = $state::from_typed(..) { v } else { unreachable!() },
\* where $version is the version of the method that takes the argument.
into_versioned(t) ==
  /\ pc[t] = "match"
  /\ call.kind = "method"
  /\ call.stage = "arg"
  /\ LET got == from_raw(call.win_ver)
         arg == call.args[Len(call.fwd) + 1]
     IN  IF got = Some(call.arm)
         THEN /\ call' = [call EXCEPT
                            !.fwd = Append(@, ForwardArg_forward(arg)),
                            !.shapes = Append(@, got[1]),
                            !.stage = "forward"]
              /\ pc' = [pc EXCEPT ![t] = "forward"]
         ELSE /\ call' = [call EXCEPT !.stage = "panic"]
              /\ pc' = [pc EXCEPT ![t] = "panic"]
  /\ UNCHANGED <<objVars, os, INIT, version, patch_version, result, rets,
                 rtl_calls, reg_calls, closure_runs, calls_made, missing_module>>

\* (*v).$fname(..) with the forwarded arguments: the method of the versioned
\* type runs, the shell answers a status, and the status is the value of the
\* forwarded call.
invoke(t) ==
  /\ pc[t] = "forward"
  /\ Len(call.fwd) = Len(call.args)
  /\ \E status \in Statuses :
       call' = [call EXCEPT
                  !.concrete = Append(@, [name |-> call.fname, args |-> call.fwd]),
                  !.vtable = @ \o call_method(TablesOf(call.arm, unwrap_or(missing_module, "")),
                                              call.iface, call.fname, call.fwd),
                  !.status = Some(status),
                  !.ret = Some(status),
                  !.stage = "done"]
  /\ pc' = [pc EXCEPT ![t] = "app"]
  /\ UNCHANGED <<objVars, os, INIT, version, patch_version, result, rets,
                 rtl_calls, reg_calls, closure_runs, calls_made, missing_module>>

Init == RegInit(Machines, [t \in Threads |-> "idle"])

\* The registry alone: every thread calls WindowsVersion::get directly.

Next ==
  \E t \in Threads :
    \/ get_fast(t)
    \/ get_init(t)
    \/ get_block(t)
    \/ get_wake(t)
    \/ RtlGetVersion(t)
    \/ ReadPatchVersion(t)
    \/ SelectLatest(t)
    \/ once_store(t)

Spec == Init /\ [][Next]_vars

\* The forwarding layer: one thread makes forwarded calls and lookups, each of
\* which calls WindowsVersion::get.
DispatchInit ==
  RegInit(DispatchMachines, [t \in Threads |-> IF t = Caller THEN "app" ELSE "idle"])

DispatchNext ==
  \/ forward_call(Caller)
  \/ IID(Caller)
  \/ with_versioned_type(Caller)
  \/ get_fast(Caller)
  \/ get_init(Caller)
  \/ RtlGetVersion(Caller)
  \/ ReadPatchVersion(Caller)
  \/ SelectLatest(Caller)
  \/ once_store(Caller)
  \/ match_version(Caller)
  \/ from_typed(Caller)
  \/ forward_arg(Caller)
  \/ into_versioned(Caller)
  \/ invoke(Caller)

DispatchSpec == DispatchInit /\ [][DispatchNext]_vars

\* ===================================================== claims: the registry
\* Everything WindowsVersion::get has returned so far, to any thread.
Returns == UNION { { rets[t][i] : i \in 1..Len(rets[t]) } : t \in Threads }

\* The (build, patch) tuple each module name declares, as a table indexed by
\* the version.
RECURSIVE DeclaredUpTo(_)
DeclaredUpTo(n) ==
  IF n = 0 THEN <<>> ELSE Append(DeclaredUpTo(n - 1), windows_version(n)[1])
DeclaredTable == DeclaredUpTo(Len(VersionNames))

\* The patch the machine reports: the UBR value, when the registry holds one
\* that is not negative.
DetectedPatch ==
  IF IsSome(os.ubr) /\ i32_from_le_bytes(os.ubr[1]) >= 0
  THEN Some(U32(i32_from_le_bytes(os.ubr[1])))
  ELSE None

\* The versions of the table of declared tuples that are not newer than the
\* detected version: by the whole (build, patch) tuple when the patch was
\* detected, by the build alone when no patch is known.
EligibleIn(declared) ==
  { w \in WindowsVersion :
      IF IsSome(DetectedPatch)
      THEN TupleLe(declared[w], <<U32(os.release.build), DetectedPatch[1]>>)
      ELSE u32_le(declared[w][1], U32(os.release.build)) }

\* C1: whenever the version query succeeded and some declared version is
\* <= the detected version, WindowsVersion::get returns a declared version
\* that is <= the detected version and >= every other such version. With
\* only build_10240 and build_22000 declared, build 19045 selects build_10240
\* and build 26100 selects build_22000.
C1_SelectsLatestSupported ==
  /\ (os.rtl_ok /\ Returns # {}) =>
       LET declared == DeclaredTable
           eligible == EligibleIn(declared)
       IN  eligible # {} =>
             \A r \in Returns :
               /\ r.value \in eligible
               /\ \A w \in eligible : TupleLe(declared[w], declared[r.value])
  /\ latest_supported(<<1, 6>>, U32(19045), Some(U32(0))) = 1
  /\ latest_supported(<<1, 6>>, U32(26100), Some(U32(0))) = 6

\* C1 witness: on build 22631 with patch 2215 the resolution returned
\* build_22621_3155, passing over build_22631_2428 and build_22631_3155.
C1_Witness ==
  /\ os.rtl_ok
  /\ os.release.build = 22631
  /\ DetectedPatch = Some(U32(2215))
  /\ \E t \in Threads : rets[t] # <<>> /\ rets[t][1] = [value |-> 8, how |-> "init"]

\* C2 (the claim as stated): when the version query succeeded and no declared
\* version is <= the detected version, WindowsVersion::get returns the oldest
\* declared version.
C2_FallsBackToOldest ==
  (os.rtl_ok /\ Returns # {}) =>
    LET declared == DeclaredTable
    IN  EligibleIn(declared) = {} =>
          \A r \in Returns :
            /\ r.value = ALL[1]
            /\ \A w \in WindowsVersion : TupleLe(declared[r.value], declared[w])

\* C3 (the claim as stated): selection is monotonic. For the detected tuple
\* T2 of this machine and every detected tuple T1 <= T2 of another machine,
\* the version resolved here is not declared earlier than the one resolved
\* there.
C3_Monotonic ==
  \A r \in Returns :
    (os.rtl_ok /\ IsSome(DetectedPatch)) =>
      \A rel \in OsReleases : \A ubr \in UbrAnswers :
        LET p1 == read_patch_version_from_registry(ubr)
        IN  (IsSome(p1) /\ TupleLe(<<U32(rel.build), p1[1]>>,
                                   <<U32(os.release.build), DetectedPatch[1]>>))
              => latest_supported(ALL, U32(rel.build), p1) <= r.value

\* C4: when RtlGetVersion fails, every call of WindowsVersion::get returns the
\* last declared version, which is the newest one, the registry is not read
\* (no filtering takes place) and no thread panics.
C4_QueryFailureUsesNewest ==
  ~os.rtl_ok =>
    /\ Returns # {} =>
         LET declared == DeclaredTable
         IN  \A r \in Returns :
               /\ r.value = ALL[Len(ALL)]
               /\ \A w \in WindowsVersion : TupleLe(declared[w], declared[r.value])
    /\ reg_calls = 0
    /\ \A t \in Threads : pc[t] # "panic"

\* C4 witness: RtlGetVersion failed on a machine older than every declared
\* version and the resolution returned.
C4_Witness ==
  /\ ~os.rtl_ok
  /\ os.release.build = 9600
  /\ \E r \in Returns : r.how = "init"

\* C5: the cell only moves Incomplete -> Running -> Complete and never
\* leaves Complete or changes its value; once a call has returned, no step
\* queries the OS or the registry or enters the closure again, and every
\* value returned is the memoized one.
C5_ResolvedOnce ==
  [][ /\ (INIT.state = "Incomplete" => INIT'.state \in {"Incomplete", "Running"})
      /\ (INIT.state = "Running" => INIT'.state \in {"Running", "Complete"})
      /\ (INIT.state = "Complete" => INIT' = INIT)
      /\ (Returns # {} =>
            /\ rtl_calls' = rtl_calls
            /\ reg_calls' = reg_calls
            /\ closure_runs' = closure_runs
            /\ \A t \in Threads : \A i \in 1..Len(rets'[t]) :
                 rets'[t][i].value = INIT.value[1]) ]_vars

\* C5 witness: a thread called WindowsVersion::get a second time and was
\* served from the initialized cell.
C5_Witness ==
  \E t \in Threads : Len(rets[t]) >= 2 /\ rets[t][2].how = "fast"

\* C6: in every interleaving the closure is entered at most once, exactly one
\* call returns as the initializer once any call returned, all calls of all
\* threads return the same value, and a call returns only when the cell is
\* Complete and holds that value.
C6_FirstCallerWins ==
  /\ closure_runs <= 1
  /\ \A r1 \in Returns : \A r2 \in Returns : r1.value = r2.value
  /\ Returns # {} =>
       /\ INIT.state = "Complete"
       /\ \A r \in Returns : INIT.value = Some(r.value)
       /\ Cardinality({ <<t, i>> \in Threads \X (1..MaxGets) :
                          i <= Len(rets[t]) /\ rets[t][i].how = "init" }) = 1

\* C6 witness: one thread ran the closure while another one, which had
\* called get before the cell was initialized, waited and then returned.
C6_Witness ==
  \E t \in Threads : \E u \in Threads :
    /\ t # u
    /\ rets[t] # <<>> /\ rets[t][1].how = "init"
    /\ rets[u] # <<>> /\ rets[u][1].how = "waited"

\* ============================================ claims: the forwarding layer
\* The module whose definitions the current call went to.
CallModule == TablesOf(call.arm, unwrap_or(missing_module, ""))

\* A forwarded method call has returned.
CallDone == call.kind = "method" /\ call.stage = "done"

\* The current call's method exists on the versioned type it went to.
CallHasMethod == has_method(CallModule, call.iface, call.fname)

C8_AbsentOptionalIsNotImpl ==
  /\ { <<m.iface, m.fname>> : m \in { x \in AbstractMethods : x.optional } } =
       { <<"IVirtualDesktop", "get_name">>,
         <<"IVirtualDesktop", "get_wallpaper">>,
         <<"IApplicationViewCollection", "try_get_last_active_visible_view">>,
         <<"IVirtualDesktopManagerInternal", "move_desktop">>,
         <<"IVirtualDesktopManagerInternal", "get_desktop_switch_include_exclude_views">>,
         <<"IVirtualDesktopManagerInternal", "set_name">>,
         <<"IVirtualDesktopManagerInternal", "set_wallpaper">>,
         <<"IVirtualDesktopManagerInternal", "update_wallpaper_for_all">> }
  /\ (call.kind = "method" /\ call.optional) => call.stage # "panic"
  /\ (CallDone /\ call.optional /\ ~CallHasMethod) =>
       /\ call.ret = Some(E_NOTIMPL)
       /\ call.concrete = <<>>
       /\ call.vtable = <<>>
       /\ pc[Caller] = "app"

\* C8 witness: get_name was called on build_10240, whose IVirtualDesktop has
\* no such method, and the call returned.
C8_Witness ==
  /\ CallDone
  /\ call.fname = "get_name"
  /\ call.arm = 1
  /\ call.ret = Some(E_NOTIMPL)

\* C9: a call of a forwarded method that the resolved version's definition
\* has calls the method of that name of the versioned type exactly once, with
\* the same argument values in the same order, invokes one vtable slot whose
\* arguments, the monitor aside, are those same values in order, and returns
\* the status the shell answered.
C9_ForwardsOnceUnchanged ==
  (CallDone /\ CallHasMethod) =>
    /\ Len(call.concrete) = 1
    /\ call.concrete[1] = [name |-> call.fname, args |-> call.args]
    /\ Len(call.vtable) = 1
    /\ SelectSeq(call.vtable[1].args, LAMBDA a : a.kind # "monitor") = call.args
    /\ IsSome(call.status)
    /\ call.ret = call.status

\* C9 witness: set_name, an optional method with a handle and a value, was
\* called on build_22621_2215, which has it, and the shell answered E_FAIL.
C9_Witness ==
  /\ CallDone
  /\ call.fname = "set_name"
  /\ call.arm = 7
  /\ call.ret = Some(-2147467259)
  /\ Len(call.concrete) = 1

\* The six methods of IVirtualDesktopManagerInternal that took a monitor in
\* one build, with the slot that takes the monitor.
MonitorSlot ==
  [get_desktop_count   |-> "get_desktop_count_m",
   get_current_desktop |-> "get_current_desktop_m",
   get_desktops        |-> "get_desktops_m",
   switch_desktop      |-> "switch_desktop_m",
   create_desktop      |-> "create_desktop_m",
   move_desktop        |-> "move_desktop_m"]

\* C10: a call of one of the six methods, made with the one signature of the
\* abstract interface, invokes on build_22000 the *_m slot of the method with
\* one monitor argument, which is 0, and the other arguments unchanged and in
\* order; on a build whose methods take no monitor it invokes the slot of the
\* same name with the arguments alone.
C10_MonitorDefaulted ==
  (/\ CallDone
   /\ CallHasMethod
   /\ call.iface = "IVirtualDesktopManagerInternal"
   /\ call.fname \in DOMAIN MonitorSlot) =>
     /\ Len(call.vtable) = 1
     /\ IF MonitorSlot[call.fname] \in vtable(CallModule, call.iface)
        THEN /\ CallModule = "build_22000"
             /\ call.vtable[1].slot = MonitorSlot[call.fname]
             /\ Len(call.vtable[1].args) = Len(call.args) + 1
             /\ \A i \in 1..Len(call.vtable[1].args) :
                  call.vtable[1].args[i].kind = "monitor" =>
                    call.vtable[1].args[i].val = 0
             /\ SelectSeq(call.vtable[1].args, LAMBDA a : a.kind # "monitor")
                  = call.args
        ELSE /\ call.vtable[1].slot = call.fname
             /\ call.vtable[1].args = call.args
             /\ \A i \in 1..Len(call.vtable[1].args) :
                  call.vtable[1].args[i].kind # "monitor"

\* C10 witness: move_desktop was called on build_22000 and went to
\* move_desktop_m with the monitor between the desktop and the index.
C10_Witness ==
  /\ CallDone
  /\ call.fname = "move_desktop"
  /\ call.arm = 6
  /\ call.vtable[1].slot = "move_desktop_m"
  /\ call.vtable[1].args[2] = [kind |-> "monitor", val |-> 0]


\* ========================================== part 3: handles to a COM object
\* The version WindowsVersion::get resolves on machine m.
DetectedOn(m) ==
  IF m.rtl_ok
  THEN latest_supported(ALL, U32(m.release.build),
                        read_patch_version_from_registry(m.ubr))
  ELSE WindowsVersion_default

\* The state after one thread called WindowsVersion::get once and it returned.
ResolvedInit(machines) ==
  /\ os \in machines
  /\ INIT = [state |-> "Complete", value |-> Some(DetectedOn(os))]
  /\ pc = [t \in Threads |-> "idle"]
  /\ version = [t \in Threads |->
                  IF t = Caller /\ os.rtl_ok
                  THEN [dwMajorVersion |-> U32(os.release.major),
                        dwMinorVersion |-> U32(os.release.minor),
                        dwBuildNumber  |-> U32(os.release.build)]
                  ELSE NoVersion]
  /\ patch_version = [t \in Threads |->
                        IF t = Caller /\ os.rtl_ok
                        THEN read_patch_version_from_registry(os.ubr)
                        ELSE None]
  /\ result = [t \in Threads |->
                 IF t = Caller THEN Some(DetectedOn(os)) ELSE None]
  /\ rets = [t \in Threads |->
               IF t = Caller
               THEN <<[value |-> DetectedOn(os), how |-> "init"]>>
               ELSE <<>>]
  /\ rtl_calls = 1
  /\ reg_calls = (IF os.rtl_ok THEN 1 ELSE 0)
  /\ closure_runs = 1
  /\ call = NoCall
  /\ calls_made = 0
  /\ missing_module = None

\* The number of owning handles and of borrowed wrappers a program holds to
\* the object at one time.
MaxOwning == 2
MaxBorrowed == 1

OwningIds == 1..MaxOwning
BorrowedIds == 1..MaxBorrowed

\* The type of a handle: the abstract interface struct $name(IUnknown), or
\* the concrete interface self::$version::$name of one version.
Abstract == [kind |-> "abstract", version |-> 0]
Versioned(v) == [kind |-> "versioned", version |-> v]

\* The machines the object lives on: three releases, no UBR value.
RefMachines ==
  { m \in Machines : m.rtl_ok /\ m.ubr = None
                     /\ m.release.build \in {10240, 22000, 22631} }

\* IUnknown::AddRef and IUnknown::Release on the object.
AddRef(n) == n + 1
Release(n) == n - 1

Owns(h) == IsSome(com.owning[h])
Borrows(b) == IsSome(com.borrowed[b])

\* The borrowed wrappers whose lifetime 'a is tied to owning handle h.
BorrowedFrom(h) == { b \in BorrowedIds : Borrows(b) /\ com.borrowed[b][1].from = h }

\* #[derive(Clone)] on struct $name(IUnknown): IUnknown::clone calls AddRef.
Clone(h, g) ==
  /\ Owns(h) /\ ~Owns(g)
  /\ com' = [com EXCEPT !.owning[g] = com.owning[h],
                        !.refcount = AddRef(@),
                        !.op = "clone"]
  /\ UNCHANGED <<regVars, dispVars, sink, listener, audit>>

\* The owning handle goes out of scope: Drop of IUnknown calls Release. The
\* borrow checker lets it happen only when no ComIn<'a, T> borrows from it.
DropOwning(h) ==
  /\ Owns(h) /\ BorrowedFrom(h) = {}
  /\ com' = [com EXCEPT !.owning[h] = None,
                        !.refcount = Release(@),
                        !.op = "drop"]
  /\ UNCHANGED <<regVars, dispVars, sink, listener, audit>>

\* Versioned -> Abstract: Self(v.into()), the pointer is moved.
From_Versioned_for_Abstract(h) ==
  /\ Owns(h) /\ com.owning[h][1].kind = "versioned"
  /\ com' = [com EXCEPT !.owning[h] = Some(Abstract),
                        !.op = "into_abstract"]
  /\ UNCHANGED <<regVars, dispVars, sink, listener, audit>>

\* Mutant of From_Abstract_for_Versioned: the conversion takes a reference
\* of its own on top of the one it was given.
From_Abstract_for_Versioned_addref(h, target) ==
  /\ Owns(h) /\ com.owning[h][1].kind = "abstract"
  /\ com' = [com EXCEPT !.owning[h] = Some(Versioned(target)),
                        !.refcount = AddRef(@),
                        !.op = "into_versioned"]
  /\ UNCHANGED <<regVars, dispVars, sink, listener, audit>>

\* Abstract -> Versioned: assert_eq!(WindowsVersion::get(), $version), then
\* transmute(v.0). A failed assertion unwinds and drops the argument v.
From_Abstract_for_Versioned(h, target) ==
  /\ Owns(h) /\ com.owning[h][1].kind = "abstract"
  /\ IF INIT.value[1] = target
     THEN com' = [com EXCEPT !.owning[h] = Some(Versioned(target)),
                             !.op = "into_versioned"]
     ELSE com' = [com EXCEPT !.owning[h] = None,
                             !.refcount = Release(@),
                             !.op = "drop"]
  /\ UNCHANGED <<regVars, dispVars, sink, listener, audit>>

\* ComIn::new(t: &'a T): copies the raw interface pointer.
ComIn_new(b, h) ==
  /\ Owns(h) /\ ~Borrows(b)
  /\ com' = [com EXCEPT !.borrowed[b] =
                          Some([from |-> h, type |-> com.owning[h][1]]),
                        !.op = "borrow"]
  /\ UNCHANGED <<regVars, dispVars, sink, listener, audit>>

\* ComIn<Versioned> -> ComIn<Abstract>: ComIn::new over a pointer cast.
From_ComIn_Versioned_for_ComIn_Abstract(b) ==
  /\ Borrows(b) /\ com.borrowed[b][1].type.kind = "versioned"
  /\ com' = [com EXCEPT !.borrowed[b][1].type = Abstract,
                        !.op = "borrow_into_abstract"]
  /\ UNCHANGED <<regVars, dispVars, sink, listener, audit>>

\* ComIn<Abstract> -> ComIn<Versioned>: the arm of from_typed, or
\* unreachable!() for another version than the resolved one.
From_ComIn_Abstract_for_ComIn_Versioned(b, target) ==
  /\ Borrows(b) /\ com.borrowed[b][1].type.kind = "abstract"
  /\ IF from_raw(INIT.value[1]) = Some(target)
     THEN com' = [com EXCEPT !.borrowed[b][1].type = Versioned(target),
                             !.op = "borrow_into_versioned"]
     ELSE com' = [com EXCEPT !.borrowed[b] = None,
                             !.op = "borrow_end"]
  /\ UNCHANGED <<regVars, dispVars, sink, listener, audit>>

\* The wrapper goes out of scope: ComIn has no Drop implementation.
ComIn_end(b) ==
  /\ Borrows(b)
  /\ com' = [com EXCEPT !.borrowed[b] = None,
                        !.op = "borrow_end"]
  /\ UNCHANGED <<regVars, dispVars, sink, listener, audit>>

\* The program holds one abstract owning handle to an object the shell
\* created; the shell may hold a reference of its own.
RefInit ==
  /\ ResolvedInit(RefMachines)
  /\ \E shell \in 0..1 :
       com = [refcount |-> shell + 1, shell |-> shell,
              owning |-> [h \in OwningIds |->
                            IF h = Caller THEN Some(Abstract) ELSE None],
              borrowed |-> [b \in BorrowedIds |-> None],
              op |-> "none"]
  /\ sink = NoSink
  /\ listener = NoListener
  /\ audit = NoAudit

RefNext ==
  \/ \E h, g \in OwningIds : Clone(h, g)
  \/ \E h \in OwningIds : DropOwning(h)
  \/ \E h \in OwningIds : From_Versioned_for_Abstract(h)
  \/ \E h \in OwningIds, target \in WindowsVersion :
       From_Abstract_for_Versioned(h, target)
  \/ \E b \in BorrowedIds, h \in OwningIds : ComIn_new(b, h)
  \/ \E b \in BorrowedIds : From_ComIn_Versioned_for_ComIn_Abstract(b)
  \/ \E b \in BorrowedIds, target \in WindowsVersion :
       From_ComIn_Abstract_for_ComIn_Versioned(b, target)
  \/ \E b \in BorrowedIds : ComIn_end(b)

RefSpec == RefInit /\ [][RefNext]_vars

\* ------------------------------------------------- claims: reference counts
\* The owning handles the program holds.
LiveOwning == { h \in OwningIds : Owns(h) }

\* C11: the reference count is the shell's references plus one per owning
\* handle alive, and every step changes it by what its operation says:
\* cloning an owning handle by +1, destroying one by -1, an owned
\* abstract<->versioned conversion by 0, and constructing, converting or
\* ending a borrowed ComIn wrapper by 0.
C11_RefCountDeltas ==
  /\ [](com.refcount = com.shell + Cardinality(LiveOwning))
  /\ [][ /\ com'.op = "clone" => com'.refcount = com.refcount + 1
         /\ com'.op = "drop" => com'.refcount = com.refcount - 1
         /\ com'.op \in {"into_abstract", "into_versioned", "borrow",
                         "borrow_into_abstract", "borrow_into_versioned",
                         "borrow_end"}
              => com'.refcount = com.refcount ]_vars

\* An owning handle was converted to its versioned type and a borrowed
\* wrapper of it was converted while a second owning handle was alive.
C11_Witness ==
  /\ Cardinality(LiveOwning) = MaxOwning
  /\ \E h \in LiveOwning : com.owning[h][1].kind = "versioned"
  /\ \E b \in BorrowedIds : Borrows(b) /\ com.borrowed[b][1].type.kind = "versioned"
  /\ com.op = "borrow_into_versioned"


\* ========================================= part 4: the notification adapters
\* A parameter list: one kind per parameter after &self. "monitors" is
\* ComIn<IObjectArray>, "desktop" ComIn<IVirtualDesktop>, "view"
\* ComIn<IApplicationView>.
\* The concrete notification interface of build_10240.
build_10240_IVirtualDesktopNotification ==
  << [fname |-> "virtual_desktop_created", params |-> <<"desktop">>],
     [fname |-> "virtual_desktop_destroy_begin", params |-> <<"desktop", "desktop">>],
     [fname |-> "virtual_desktop_destroy_failed", params |-> <<"desktop", "desktop">>],
     [fname |-> "virtual_desktop_destroyed", params |-> <<"desktop", "desktop">>],
     [fname |-> "view_virtual_desktop_changed", params |-> <<"view">>],
     [fname |-> "current_virtual_desktop_changed", params |-> <<"desktop", "desktop">>] >>

\* The concrete notification interface of build_22000.
build_22000_IVirtualDesktopNotification ==
  << [fname |-> "virtual_desktop_created", params |-> <<"monitors", "desktop">>],
     [fname |-> "virtual_desktop_destroy_begin",
      params |-> <<"monitors", "desktop", "desktop">>],
     [fname |-> "virtual_desktop_destroy_failed",
      params |-> <<"monitors", "desktop", "desktop">>],
     [fname |-> "virtual_desktop_destroyed",
      params |-> <<"monitors", "desktop", "desktop">>],
     [fname |-> "virtual_desktop_is_per_monitor_changed", params |-> <<"i32">>],
     [fname |-> "virtual_desktop_moved",
      params |-> <<"monitors", "desktop", "i64", "i64">>],
     [fname |-> "virtual_desktop_name_changed", params |-> <<"desktop", "HSTRING">>],
     [fname |-> "view_virtual_desktop_changed", params |-> <<"view">>],
     [fname |-> "current_virtual_desktop_changed",
      params |-> <<"monitors", "desktop", "desktop">>],
     [fname |-> "virtual_desktop_wallpaper_changed", params |-> <<"desktop", "HSTRING">>],
     [fname |-> "virtual_desktop_switched", params |-> <<"desktop">>],
     [fname |-> "remote_virtual_desktop_connected", params |-> <<"desktop">>] >>

\* The concrete notification interface of build_22621_2215.
build_22621_2215_IVirtualDesktopNotification ==
  << [fname |-> "virtual_desktop_created", params |-> <<"desktop">>],
     [fname |-> "virtual_desktop_destroy_begin", params |-> <<"desktop", "desktop">>],
     [fname |-> "virtual_desktop_destroy_failed", params |-> <<"desktop", "desktop">>],
     [fname |-> "virtual_desktop_destroyed", params |-> <<"desktop", "desktop">>],
     [fname |-> "virtual_desktop_moved", params |-> <<"desktop", "i64", "i64">>],
     [fname |-> "virtual_desktop_name_changed", params |-> <<"desktop", "HSTRING">>],
     [fname |-> "view_virtual_desktop_changed", params |-> <<"view">>],
     [fname |-> "current_virtual_desktop_changed", params |-> <<"desktop", "desktop">>],
     [fname |-> "virtual_desktop_wallpaper_changed", params |-> <<"desktop", "HSTRING">>],
     [fname |-> "virtual_desktop_switched", params |-> <<"desktop">>],
     [fname |-> "remote_virtual_desktop_connected", params |-> <<"desktop">>] >>

\* The concrete notification interface a module defines.
ConcreteNotification(module) ==
  CASE module = "build_10240" -> build_10240_IVirtualDesktopNotification
    [] module = "build_22000" -> build_22000_IVirtualDesktopNotification
    [] module = "build_22621_2215" -> build_22621_2215_IVirtualDesktopNotification

\* The stable callback contract: trait IVirtualDesktopNotification_Impl.
IVirtualDesktopNotification_Impl ==
  { "virtual_desktop_created", "virtual_desktop_destroy_begin",
    "virtual_desktop_destroy_failed", "virtual_desktop_destroyed",
    "virtual_desktop_moved", "virtual_desktop_name_changed",
    "view_virtual_desktop_changed", "current_virtual_desktop_changed",
    "virtual_desktop_wallpaper_changed", "virtual_desktop_switched",
    "remote_virtual_desktop_connected" }

\* desktop.into(), view.into(): ComIn<Versioned> -> ComIn<Abstract>, a
\* wrapper of the abstract type over the same pointer.
ComIn_into(arg) == [arg EXCEPT !.type = "abstract"]

\* self.inner.$fname(..): a call of a stable callback.
inner(fname, args) == Some([fname |-> fname, args |-> args])

\* VirtualDesktopNotificationAdaptor of build_10240: the stable call a
\* concrete callback makes with its arguments a.
build_10240_VirtualDesktopNotificationAdaptor(fname, a) ==
  CASE fname = "current_virtual_desktop_changed" ->
         inner("current_virtual_desktop_changed", <<ComIn_into(a[1]), ComIn_into(a[2])>>)
    [] fname = "virtual_desktop_created" ->
         inner("virtual_desktop_created", <<ComIn_into(a[1])>>)
    [] fname = "virtual_desktop_destroy_begin" ->
         inner("virtual_desktop_destroy_begin", <<ComIn_into(a[1]), ComIn_into(a[2])>>)
    [] fname = "virtual_desktop_destroy_failed" ->
         inner("virtual_desktop_destroy_failed", <<ComIn_into(a[1]), ComIn_into(a[2])>>)
    [] fname = "virtual_desktop_destroyed" ->
         inner("virtual_desktop_destroyed", <<ComIn_into(a[1]), ComIn_into(a[2])>>)
    [] fname = "view_virtual_desktop_changed" ->
         inner("view_virtual_desktop_changed", <<ComIn_into(a[1])>>)

\* Mutant of build_22000_VirtualDesktopNotificationAdaptor: the new desktop
\* is passed before the old one, and the per-monitor change is delivered as
\* a switch.
build_22000_VirtualDesktopNotificationAdaptor_swapped(fname, a) ==
  CASE fname = "virtual_desktop_is_per_monitor_changed" ->
         inner("virtual_desktop_switched", <<a[1]>>)
    [] fname = "view_virtual_desktop_changed" ->
         inner("view_virtual_desktop_changed", <<ComIn_into(a[1])>>)
    [] fname \in {"virtual_desktop_name_changed", "virtual_desktop_wallpaper_changed"} ->
         inner(fname, <<ComIn_into(a[1]), a[2]>>)
    [] fname \in {"virtual_desktop_switched", "remote_virtual_desktop_connected"} ->
         inner(fname, <<ComIn_into(a[1])>>)
    [] fname = "virtual_desktop_created" ->
         inner(fname, <<ComIn_into(a[2])>>)
    [] fname = "virtual_desktop_moved" ->
         inner(fname, <<ComIn_into(a[2]), a[3], a[4]>>)
    [] OTHER -> inner(fname, <<ComIn_into(a[3]), ComIn_into(a[2])>>)

\* VirtualDesktopNotificationAdaptor of build_22000: _monitors is not passed
\* on, virtual_desktop_is_per_monitor_changed returns HRESULT(0) itself.
build_22000_VirtualDesktopNotificationAdaptor(fname, a) ==
  CASE fname = "virtual_desktop_created" ->
         inner("virtual_desktop_created", <<ComIn_into(a[2])>>)
    [] fname = "virtual_desktop_destroy_begin" ->
         inner("virtual_desktop_destroy_begin", <<ComIn_into(a[2]), ComIn_into(a[3])>>)
    [] fname = "virtual_desktop_destroy_failed" ->
         inner("virtual_desktop_destroy_failed", <<ComIn_into(a[2]), ComIn_into(a[3])>>)
    [] fname = "virtual_desktop_destroyed" ->
         inner("virtual_desktop_destroyed", <<ComIn_into(a[2]), ComIn_into(a[3])>>)
    [] fname = "virtual_desktop_is_per_monitor_changed" -> None
    [] fname = "virtual_desktop_moved" ->
         inner("virtual_desktop_moved", <<ComIn_into(a[2]), a[3], a[4]>>)
    [] fname = "virtual_desktop_name_changed" ->
         inner("virtual_desktop_name_changed", <<ComIn_into(a[1]), a[2]>>)
    [] fname = "view_virtual_desktop_changed" ->
         inner("view_virtual_desktop_changed", <<ComIn_into(a[1])>>)
    [] fname = "current_virtual_desktop_changed" ->
         inner("current_virtual_desktop_changed", <<ComIn_into(a[2]), ComIn_into(a[3])>>)
    [] fname = "virtual_desktop_wallpaper_changed" ->
         inner("virtual_desktop_wallpaper_changed", <<ComIn_into(a[1]), a[2]>>)
    [] fname = "virtual_desktop_switched" ->
         inner("virtual_desktop_switched", <<ComIn_into(a[1])>>)
    [] fname = "remote_virtual_desktop_connected" ->
         inner("remote_virtual_desktop_connected", <<ComIn_into(a[1])>>)

\* VirtualDesktopNotificationAdaptor of build_22621_2215.
build_22621_2215_VirtualDesktopNotificationAdaptor(fname, a) ==
  CASE fname = "virtual_desktop_created" ->
         inner("virtual_desktop_created", <<ComIn_into(a[1])>>)
    [] fname = "virtual_desktop_destroy_begin" ->
         inner("virtual_desktop_destroy_begin", <<ComIn_into(a[1]), ComIn_into(a[2])>>)
    [] fname = "virtual_desktop_destroy_failed" ->
         inner("virtual_desktop_destroy_failed", <<ComIn_into(a[1]), ComIn_into(a[2])>>)
    [] fname = "virtual_desktop_destroyed" ->
         inner("virtual_desktop_destroyed", <<ComIn_into(a[1]), ComIn_into(a[2])>>)
    [] fname = "virtual_desktop_moved" ->
         inner("virtual_desktop_moved", <<ComIn_into(a[1]), a[2], a[3]>>)
    [] fname = "virtual_desktop_name_changed" ->
         inner("virtual_desktop_name_changed", <<ComIn_into(a[1]), a[2]>>)
    [] fname = "view_virtual_desktop_changed" ->
         inner("view_virtual_desktop_changed", <<ComIn_into(a[1])>>)
    [] fname = "current_virtual_desktop_changed" ->
         inner("current_virtual_desktop_changed", <<ComIn_into(a[1]), ComIn_into(a[2])>>)
    [] fname = "virtual_desktop_wallpaper_changed" ->
         inner("virtual_desktop_wallpaper_changed", <<ComIn_into(a[1]), a[2]>>)
    [] fname = "virtual_desktop_switched" ->
         inner("virtual_desktop_switched", <<ComIn_into(a[1])>>)
    [] fname = "remote_virtual_desktop_connected" ->
         inner("remote_virtual_desktop_connected", <<ComIn_into(a[1])>>)

\* The adaptor of a module.
Adaptor(module, fname, a) ==
  CASE module = "build_10240" -> build_10240_VirtualDesktopNotificationAdaptor(fname, a)
    [] module = "build_22000" -> build_22000_VirtualDesktopNotificationAdaptor(fname, a)
    [] module = "build_22621_2215" ->
         build_22621_2215_VirtualDesktopNotificationAdaptor(fname, a)

\* The modules whose adaptor a version's sink may be. The file of
\* build_16299, build_20348, build_22621_3155 and build_22631_3155 is not at
\* hand: such a module is taken to define its adaptor like one of the
\* modules at hand.
AdaptorModules(v) ==
  IF TableModule[v] \in Defined THEN {TableModule[v]} ELSE Defined


\* Mutant of VirtualDesktopNotification_Impl: created reports a destroyed
\* desktop and switched reports a change.
VirtualDesktopNotification_Impl_mixed(fname) ==
  CASE fname = "current_virtual_desktop_changed" ->
         [try_into |-> <<1, 2>>, window |-> FALSE, event |-> "DesktopChanged"]
    [] fname = "virtual_desktop_wallpaper_changed" ->
         [try_into |-> <<1>>, window |-> FALSE, event |-> "DesktopWallpaperChanged"]
    [] fname = "virtual_desktop_created" ->
         [try_into |-> <<1>>, window |-> FALSE, event |-> "DesktopDestroyed"]
    [] fname = "virtual_desktop_destroy_begin" ->
         [try_into |-> <<>>, window |-> FALSE, event |-> ""]
    [] fname = "virtual_desktop_destroy_failed" ->
         [try_into |-> <<>>, window |-> FALSE, event |-> ""]
    [] fname = "virtual_desktop_destroyed" ->
         [try_into |-> <<1, 2>>, window |-> FALSE, event |-> "DesktopDestroyed"]
    [] fname = "virtual_desktop_moved" ->
         [try_into |-> <<1>>, window |-> FALSE, event |-> "DesktopMoved"]
    [] fname = "virtual_desktop_name_changed" ->
         [try_into |-> <<1>>, window |-> FALSE, event |-> "DesktopNameChanged"]
    [] fname = "view_virtual_desktop_changed" ->
         [try_into |-> <<>>, window |-> TRUE, event |-> "WindowChanged"]
    [] fname = "virtual_desktop_switched" ->
         [try_into |-> <<1>>, window |-> FALSE, event |-> "DesktopChanged"]
    [] fname = "remote_virtual_desktop_connected" ->
         [try_into |-> <<>>, window |-> FALSE, event |-> ""]

\* impl IVirtualDesktopNotification_Impl for VirtualDesktopNotification: what
\* each stable callback does before it returns HRESULT(0). try_into lists the
\* arguments converted with try_into()? inside eat_error, in order; window
\* says that the view's window is read; event is the DesktopEvent handed to
\* self.sender, "" when the callback sends none.
VirtualDesktopNotification_Impl(fname) ==
  CASE fname = "current_virtual_desktop_changed" ->
         [try_into |-> <<1, 2>>, window |-> FALSE, event |-> "DesktopChanged"]
    [] fname = "virtual_desktop_wallpaper_changed" ->
         [try_into |-> <<1>>, window |-> FALSE, event |-> "DesktopWallpaperChanged"]
    [] fname = "virtual_desktop_created" ->
         [try_into |-> <<1>>, window |-> FALSE, event |-> "DesktopCreated"]
    [] fname = "virtual_desktop_destroy_begin" ->
         [try_into |-> <<>>, window |-> FALSE, event |-> ""]
    [] fname = "virtual_desktop_destroy_failed" ->
         [try_into |-> <<>>, window |-> FALSE, event |-> ""]
    [] fname = "virtual_desktop_destroyed" ->
         [try_into |-> <<1, 2>>, window |-> FALSE, event |-> "DesktopDestroyed"]
    [] fname = "virtual_desktop_moved" ->
         [try_into |-> <<1>>, window |-> FALSE, event |-> "DesktopMoved"]
    [] fname = "virtual_desktop_name_changed" ->
         [try_into |-> <<1>>, window |-> FALSE, event |-> "DesktopNameChanged"]
    [] fname = "view_virtual_desktop_changed" ->
         [try_into |-> <<>>, window |-> TRUE, event |-> "WindowChanged"]
    [] fname = "virtual_desktop_switched" ->
         [try_into |-> <<>>, window |-> FALSE, event |-> ""]
    [] fname = "remote_virtual_desktop_connected" ->
         [try_into |-> <<>>, window |-> FALSE, event |-> ""]

\* HRESULT(0).
S_OK == 0

\* The sink is built and the shell is not inside a callback.
IdleSink(module) == [NoSink EXCEPT !.stage = "idle", !.module = module]

\* impl<T> From<T> for IVirtualDesktopNotification: match WindowsVersion::get()
\* { $version => $version::VirtualDesktopNotificationAdaptor { inner: value } }.
IVirtualDesktopNotification_from ==
  /\ sink.stage = "none"
  /\ INIT.state = "Complete"
  /\ \E module \in AdaptorModules(INIT.value[1]) : sink' = IdleSink(module)
  /\ UNCHANGED <<regVars, dispVars, com, listener, audit>>

\* The shell calls a method of the concrete notification interface on the
\* sink, with arguments of the method's parameter kinds.
shell_notifies ==
  /\ sink.stage \in {"idle", "returned"}
  /\ \E i \in 1..Len(ConcreteNotification(sink.module)), base \in ArgBases :
       LET m == ConcreteNotification(sink.module)[i]
       IN sink' = [IdleSink(sink.module) EXCEPT
                     !.stage = "adaptor",
                     !.fname = m.fname,
                     !.args = [k \in 1..Len(m.params) |->
                                 [kind |-> m.params[k], val |-> base + k,
                                  type |-> "versioned"]]]
  /\ UNCHANGED <<regVars, dispVars, com, listener, audit>>

\* The adaptor's method: returns HRESULT(0) itself or calls the stable
\* callback and returns what it returns.
VirtualDesktopNotificationAdaptor ==
  /\ sink.stage = "adaptor"
  /\ LET c == Adaptor(sink.module, sink.fname, sink.args)
     IN IF IsSome(c)
        THEN sink' = [sink EXCEPT !.stage = "stable", !.stable = Append(@, c[1])]
        ELSE sink' = [sink EXCEPT !.stage = "returned", !.ret = Some(S_OK)]
  /\ UNCHANGED <<regVars, dispVars, com, listener, audit>>

\* eat_error(|| Ok((self.sender)(..try_into()?..))); HRESULT(0): an Err of a
\* conversion is logged and the callback returns, Ok goes on to the sender.
eat_error(res) ==
  IF res = "Ok" THEN [stage |-> "send", ret |-> None]
  ELSE [stage |-> "returned", ret |-> Some(S_OK)]

\* The stable callback of the listener up to its call of self.sender: the
\* conversions of the desktops, the read of the view's window (its result is
\* dropped), or nothing at all.
stable_callback ==
  /\ sink.stage = "stable"
  /\ LET c == sink.stable[Len(sink.stable)]
         impl == VirtualDesktopNotification_Impl(c.fname)
     IN IF impl.event = ""
        THEN sink' = [sink EXCEPT !.stage = "returned", !.ret = Some(S_OK)]
        ELSE IF impl.window
        THEN \E got \in BOOLEAN :
               sink' = [sink EXCEPT !.stage = "send",
                                    !.raised = IF got THEN "none" ELSE "window",
                                    !.events = <<[event |-> impl.event,
                                                  args |-> <<IF got THEN c.args[1].val
                                                             ELSE 0>>]>>]
        ELSE \E res \in {"Ok", "Err"} :
               sink' = [sink EXCEPT !.stage = eat_error(res).stage,
                                    !.ret = eat_error(res).ret,
                                    !.raised = IF res = "Ok" THEN "none" ELSE "conversion",
                                    !.events = IF res = "Ok"
                                               THEN <<[event |-> impl.event,
                                                       args |-> [k \in 1..Len(c.args) |->
                                                                   c.args[k].val]]>>
                                               ELSE <<>>]
  /\ UNCHANGED <<regVars, dispVars, com, listener, audit>>

\* (self.sender)(event), a Box<dyn Fn(DesktopEvent)>: the consumer's handler
\* takes the event, fails to send it (the closure drops that result), or
\* panics. Nothing catches the panic: it unwinds out of the callback, which
\* aborts the process or unwinds into the shell's frames.
sender ==
  /\ sink.stage = "send"
  /\ \/ sink' = [sink EXCEPT !.stage = "returned", !.ret = Some(S_OK)]
     \/ sink' = [sink EXCEPT !.stage = "returned", !.ret = Some(S_OK),
                             !.raised = "send", !.events = <<>>]
     \/ \E outcome \in {"aborted", "unwound"} :
          sink' = [sink EXCEPT !.stage = outcome, !.raised = "panic",
                               !.events = <<>>]
  /\ UNCHANGED <<regVars, dispVars, com, listener, audit>>

SinkInit ==
  /\ ResolvedInit(DispatchMachines)
  /\ com = NoObject
  /\ sink = NoSink
  /\ listener = NoListener
  /\ audit = NoAudit

SinkNext ==
  \/ IVirtualDesktopNotification_from
  \/ shell_notifies
  \/ VirtualDesktopNotificationAdaptor
  \/ stable_callback
  \/ sender

SinkSpec == SinkInit /\ [][SinkNext]_vars


\* ------------------------------------------ claims: the notification sink
\* The shell's call of a callback has ended, one way or another.
CallbackEnded == sink.stage \in {"returned", "aborted", "unwound"}

\* C12: every callback the shell invokes on the sink ends by returning
\* HRESULT 0 to the shell, whatever happened inside it.
C12_AlwaysReturnsSuccess ==
  CallbackEnded => sink.ret = Some(S_OK)

\* C13: a failure raised inside a callback (a conversion error, a failed
\* window read, a failed send, a panic of the handler) never leaves the
\* callback: the callback is still running or has returned.
C13_FailuresAreCaught ==
  sink.raised # "none" => sink.stage \in {"send", "returned"}

\* The methods of a module's concrete interface that the stable contract
\* does not have.
ExtraMethods(module) ==
  { ConcreteNotification(module)[i].fname :
      i \in 1..Len(ConcreteNotification(module)) } \ IVirtualDesktopNotification_Impl

\* The adaptor's method has run for the callback the shell is making.
AdaptorRan == sink.stage \in {"stable", "send", "returned", "aborted", "unwound"}

\* C14: a concrete method the stable contract does not have
\* (virtual_desktop_is_per_monitor_changed of build_22000) returns HRESULT 0
\* at once: no stable callback is called, no event is delivered, nothing is
\* raised.
C14_ExtraMethodIsNeutral ==
  (AdaptorRan /\ sink.fname \in ExtraMethods(sink.module))
    => /\ sink.stage = "returned"
       /\ sink.ret = Some(S_OK)
       /\ sink.stable = <<>>
       /\ sink.events = <<>>
       /\ sink.raised = "none"

\* virtual_desktop_is_per_monitor_changed of build_22000 has returned.
C14_Witness ==
  /\ sink.stage = "returned"
  /\ sink.module = "build_22000"
  /\ sink.fname = "virtual_desktop_is_per_monitor_changed"

\* The objects a sequence of arguments carries, in order.
Vals(args) == [k \in 1..Len(args) |-> args[k].val]

NotMonitors(arg) == arg.kind # "monitors"

\* C15: a concrete callback that has a counterpart in the stable contract
\* calls the stable callback of its own name exactly once, with its
\* arguments other than "monitors", unchanged and in the same order.
C15_DelegatesToSameName ==
  (AdaptorRan /\ sink.fname \in IVirtualDesktopNotification_Impl)
    => /\ Len(sink.stable) = 1
       /\ sink.stable[1].fname = sink.fname
       /\ Vals(sink.stable[1].args) = Vals(SelectSeq(sink.args, NotMonitors))
       /\ \A k \in 1..Len(sink.stable[1].args) :
            sink.stable[1].args[k].kind # "monitors"

\* current_virtual_desktop_changed of build_22000, which takes monitors, was
\* delegated and its event delivered.
C15_Witness ==
  /\ sink.stage = "returned"
  /\ sink.module = "build_22000"
  /\ sink.fname = "current_virtual_desktop_changed"
  /\ Len(sink.args) = Len(sink.stable[1].args) + 1
  /\ sink.events # <<>>


\* ============================================== part 5: the listener thread
\* The cookies the shell's notification service hands out.
MaxCookies == 3
Cookies == 1..MaxCookies

\* The number of failed registration attempts in a row that is counted.
MaxFailures == 2

\* The states of the shell (explorer.exe): "up", it serves calls; "busy", it
\* is alive and keeps its registrations but a call to it fails; "down", it is
\* gone and its registrations with it.
ShellStates == {"up", "busy", "down"}

\* ComObjects::is_connected: the connection the thread's ComObjects holds is
\* to a shell that answers.
is_connected == listener.connected /\ listener.shell = "up"

\* ComObjects::register_for_notifications(raw_ptr) calling
\* IVirtualDesktopNotificationService::register: the outcomes the shell can
\* give, Some(cookie) with a cookie it does not hold, or None for an error.
register_for_notifications ==
  IF listener.shell = "up" /\ Cookies \ listener.held # {}
  THEN { Some(c) : c \in Cookies \ listener.held }
  ELSE { None }

\* ComObjects::unregister_for_notifications(cookie) calling
\* IVirtualDesktopNotificationService::unregister(cookie): whether the shell
\* served the call and knew the cookie, and what it holds afterwards.
unregister_for_notifications(cookie) ==
  IF listener.shell = "up"
  THEN [ok |-> cookie \in listener.held, held |-> listener.held \ {cookie}]
  ELSE [ok |-> FALSE, held |-> listener.held]

\* Mutant of Wrapper_drop: the wrapper unregisters another cookie than its own.
Wrapper_drop_other(l) ==
  IF IsSome(l.wrapper)
  THEN LET cookie == (l.wrapper[1] % MaxCookies) + 1
           r == unregister_for_notifications(cookie)
       IN [l EXCEPT !.wrapper = None,
                    !.held = r.held,
                    !.last = [op |-> "unregister", cookie |-> cookie,
                              ok |-> r.ok, held |-> l.held],
                    !.stray = @ \/ cookie \notin l.outstanding,
                    !.outstanding = @ \ {cookie}]
  ELSE l

\* drop(listener), a Result<Pin<Box<VirtualDesktopNotificationWrapper>>>: for
\* Ok, Drop for VirtualDesktopNotificationWrapper runs, let cookie =
\* self.cookie; let _ = unregister_for_notifications(cookie); for Err nothing
\* is called. last, outstanding and stray record the call as the shell sees it.
Wrapper_drop(l) ==
  IF IsSome(l.wrapper)
  THEN LET cookie == l.wrapper[1]
           r == unregister_for_notifications(cookie)
       IN [l EXCEPT !.wrapper = None,
                    !.held = r.held,
                    !.last = [op |-> "unregister", cookie |-> cookie,
                              ok |-> r.ok, held |-> l.held],
                    !.stray = @ \/ cookie \notin l.outstanding,
                    !.outstanding = @ \ {cookie}]
  ELSE l

\* VirtualDesktopNotificationWrapper::new: let cookie =
\* com_objects.register_for_notifications(raw_ptr)?; Ok(wrapper with that
\* cookie). res is what the call returned.
Wrapper_new(l, res) ==
  [l EXCEPT !.wrapper = res,
            !.connected = IF IsSome(res) THEN TRUE ELSE @,
            !.held = IF IsSome(res) THEN @ \cup {res[1]} ELSE @,
            !.last = [op |-> "register", cookie |-> IF IsSome(res) THEN res[1] ELSE 0,
                      ok |-> IsSome(res), held |-> l.held],
            !.outstanding = IF IsSome(res) THEN @ \cup {res[1]} ELSE @,
            !.first = IF @ = "none" THEN (IF IsSome(res) THEN "Ok" ELSE "Err") ELSE @,
            !.failures = IF IsSome(res) THEN 0
                         ELSE IF @ < MaxFailures THEN @ + 1 ELSE @]

\* DesktopEventThread::new: the thread is spawned and Ok(DesktopEventThread)
\* is returned.
DesktopEventThread_new ==
  /\ listener.stage = "none"
  /\ \E shell \in ShellStates :
       listener' = [listener EXCEPT !.stage = "spawned", !.new_result = "Ok",
                                    !.control = TRUE, !.thread = TRUE,
                                    !.shell = shell]
  /\ UNCHANGED <<regVars, dispVars, com, sink, audit>>

\* The thread's first lines: ComObjects::new() and the first
\* VirtualDesktopNotificationWrapper::new.
create_listener ==
  /\ listener.stage = "spawned"
  /\ \E res \in register_for_notifications :
       listener' = [Wrapper_new(listener, res) EXCEPT !.stage = "loop"]
  /\ UNCHANGED <<regVars, dispVars, com, sink, audit>>

\* rx.recv_timeout(3 s) returns Ok(Quit): break. The locals are dropped at
\* the end of the closure, the listener among them.
recv_timeout_Quit ==
  /\ listener.stage = "loop"
  /\ listener.quit
  /\ listener' = [Wrapper_drop(listener) EXCEPT !.stage = "finished"]
  /\ UNCHANGED <<regVars, dispVars, com, sink, audit>>

\* Mutant of recv_timeout_Err: only a failed registration is retried, the
\* connection is not looked at.
recv_timeout_Err_unchecked ==
  /\ listener.stage = "loop"
  /\ ~listener.quit
  /\ ~IsSome(listener.wrapper)
  /\ listener' = [listener EXCEPT !.stage = "drop"]
  /\ UNCHANGED <<regVars, dispVars, com, sink, audit>>

\* rx.recv_timeout(3 s) returns Err with no message in the channel, and
\* !com_objects.is_connected() || listener.is_err() holds: the retry branch
\* is entered. When the condition does not hold the loop goes round with
\* nothing changed.
recv_timeout_Err ==
  /\ listener.stage = "loop"
  /\ ~listener.quit
  /\ ~is_connected \/ ~IsSome(listener.wrapper)
  /\ listener' = [listener EXCEPT !.stage = "drop"]
  /\ UNCHANGED <<regVars, dispVars, com, sink, audit>>

\* The number of timeouts of recv_timeout that find nothing to do and are
\* counted.
MaxTicks == 1

\* Mutant of recv_timeout_Err_connected: the retry branch is entered at
\* every timeout.
recv_timeout_Err_always ==
  /\ listener.stage = "loop"
  /\ ~listener.quit
  /\ is_connected /\ IsSome(listener.wrapper)
  /\ listener.ticks < MaxTicks
  /\ listener' = [listener EXCEPT !.stage = "drop", !.ticks = @ + 1]
  /\ UNCHANGED <<regVars, dispVars, com, sink, audit>>

\* rx.recv_timeout(3 s) returns Err with no message in the channel, and
\* !com_objects.is_connected() || listener.is_err() does not hold: the body
\* of the if is skipped and the loop goes round.
recv_timeout_Err_connected ==
  /\ listener.stage = "loop"
  /\ ~listener.quit
  /\ is_connected /\ IsSome(listener.wrapper)
  /\ listener.ticks < MaxTicks
  /\ listener' = [listener EXCEPT !.ticks = @ + 1]
  /\ UNCHANGED <<regVars, dispVars, com, sink, audit>>

\* Mutant of drop_listener: create-then-drop, the new wrapper is made while
\* the old one is still held.
drop_listener_keep ==
  /\ listener.stage = "drop"
  /\ listener' = [listener EXCEPT !.stage = "new"]
  /\ UNCHANGED <<regVars, dispVars, com, sink, audit>>

\* drop(listener) of the retry branch.
drop_listener ==
  /\ listener.stage = "drop"
  /\ listener' = [Wrapper_drop(listener) EXCEPT !.stage = "new"]
  /\ UNCHANGED <<regVars, dispVars, com, sink, audit>>

\* listener = VirtualDesktopNotificationWrapper::new(..) of the retry branch.
recreate_listener ==
  /\ listener.stage = "new"
  /\ \E res \in register_for_notifications :
       listener' = [Wrapper_new(listener, res) EXCEPT !.stage = "loop"]
  /\ UNCHANGED <<regVars, dispVars, com, sink, audit>>

\* The number of calls of DesktopEventThread::stop, the one of Drop included.
MaxStops == 2

\* Mutant of stop: the thread that calls stop drops the wrapper itself.
stop_unregisters ==
  /\ listener.stage # "none"
  /\ listener.stopper = "idle"
  /\ listener.stops < MaxStops
  /\ listener' = [Wrapper_drop(listener) EXCEPT
                    !.stopper = "join",
                    !.control = FALSE,
                    !.quit = @ \/ listener.control,
                    !.sent = IF listener.control THEN @ + 1 ELSE @]
  /\ UNCHANGED <<regVars, dispVars, com, sink, audit>>

\* DesktopEventThread::stop (also from Drop), its first statement: if let
\* Some(sender) = self.thread_control_sender.take() { let _ =
\* sender.send(Quit); }.
stop ==
  /\ listener.stage # "none"
  /\ listener.stopper = "idle"
  /\ listener.stops < MaxStops
  /\ listener' = [listener EXCEPT
                    !.stopper = "join",
                    !.control = FALSE,
                    !.quit = @ \/ listener.control,
                    !.sent = IF listener.control THEN @ + 1 ELSE @]
  /\ UNCHANGED <<regVars, dispVars, com, sink, audit>>

\* Mutant of stop_join: stop returns without waiting for the thread.
stop_join_detached ==
  /\ listener.stopper = "join"
  /\ listener' = [listener EXCEPT
                    !.stopper = "idle",
                    !.thread = FALSE,
                    !.joined = IF listener.thread THEN @ + 1 ELSE @,
                    !.stops = @ + 1,
                    !.stop_result = "Ok"]
  /\ UNCHANGED <<regVars, dispVars, com, sink, audit>>

\* DesktopEventThread::stop, the rest: if let Some(thread) =
\* self.thread.take() { thread.join()?; } Ok(()). join returns when the
\* thread's closure has returned.
stop_join ==
  /\ listener.stopper = "join"
  /\ listener.thread => listener.stage = "finished"
  /\ listener' = [listener EXCEPT
                    !.stopper = "idle",
                    !.thread = FALSE,
                    !.joined = IF listener.thread THEN @ + 1 ELSE @,
                    !.stops = @ + 1,
                    !.stop_result = "Ok"]
  /\ UNCHANGED <<regVars, dispVars, com, sink, audit>>

\* The shell exits: its registrations and the thread's connection are gone.
shell_exits ==
  /\ listener.stage \notin {"none", "finished"}
  /\ listener.shell # "down"
  /\ listener' = [listener EXCEPT !.shell = "down", !.held = {},
                                  !.connected = FALSE]
  /\ UNCHANGED <<regVars, dispVars, com, sink, audit>>

\* A new shell starts.
shell_starts ==
  /\ listener.stage \notin {"none", "finished"}
  /\ listener.shell = "down"
  /\ listener' = [listener EXCEPT !.shell = "up"]
  /\ UNCHANGED <<regVars, dispVars, com, sink, audit>>

\* The shell stops answering calls for a while, and answers again.
shell_hangs ==
  /\ listener.stage \notin {"none", "finished"}
  /\ listener.shell \in {"up", "busy"}
  /\ listener' = [listener EXCEPT !.shell = IF @ = "up" THEN "busy" ELSE "up"]
  /\ UNCHANGED <<regVars, dispVars, com, sink, audit>>

ListenerInit ==
  /\ ResolvedInit(RefMachines)
  /\ com = NoObject
  /\ sink = NoSink
  /\ listener = NoListener
  /\ audit = NoAudit

\* The steps of the listener thread itself.
ThreadNext ==
  \/ create_listener
  \/ recv_timeout_Quit
  \/ recv_timeout_Err
  \/ recv_timeout_Err_connected
  \/ drop_listener
  \/ recreate_listener

ListenerNext ==
  \/ DesktopEventThread_new
  \/ create_listener
  \/ recv_timeout_Quit
  \/ recv_timeout_Err
  \/ recv_timeout_Err_connected
  \/ drop_listener
  \/ recreate_listener
  \/ stop
  \/ stop_join
  \/ shell_exits
  \/ shell_starts
  \/ shell_hangs

ListenerSpec == ListenerInit /\ [][ListenerNext]_vars

\* The thread is scheduled and its recv_timeout returns every 3 seconds: a
\* step of the thread that stays possible is taken. The shell only exits and
\* starts here.
FairListenerNext ==
  \/ DesktopEventThread_new
  \/ create_listener
  \/ recv_timeout_Quit
  \/ recv_timeout_Err
  \/ recv_timeout_Err_connected
  \/ drop_listener
  \/ recreate_listener
  \/ stop
  \/ stop_join
  \/ shell_exits
  \/ shell_starts

FairListenerSpec ==
  ListenerInit /\ [][FairListenerNext]_vars /\ WF_vars(ThreadNext)


\* ------------------------------------------- claims: the listener thread
\* This step is a call of register by the thread.
RegisterStep ==
  listener.stage \in {"spawned", "new"} /\ listener'.stage = "loop"

\* This step drops the thread's listener, a wrapper or an error.
DropStep ==
  \/ listener.stage = "drop" /\ listener'.stage = "new"
  \/ listener.stage = "loop" /\ listener'.stage = "finished"

\* This step is a call of unregister by the thread.
UnregisterStep ==
  DropStep /\ IsSome(listener.wrapper) /\ listener'.last.op = "unregister"

C17_NoLiveRegistrationAtRegister ==
  listener.last.op = "register" => listener.last.held = {}

\* C18: the cookie of every unregister call is the one the matching
\* successful register returned and was outstanding; the wrapper's cookie is
\* the only outstanding one, none is left when the thread has finished, and
\* dropping a failed attempt calls nothing.
C18_CookieRoundTrip ==
  /\ [](/\ ~listener.stray
        /\ listener.outstanding =
             (IF IsSome(listener.wrapper) THEN {listener.wrapper[1]} ELSE {})
        /\ listener.stage = "finished" => listener.outstanding = {})
  /\ [][ /\ UnregisterStep =>
              /\ listener'.last.cookie = listener.last.cookie
              /\ listener.outstanding = {listener'.last.cookie}
              /\ listener'.outstanding = {}
         /\ (DropStep /\ ~IsSome(listener.wrapper))
              => listener'.last = listener.last ]_vars

\* The thread has finished and its last call unregistered the cookie of a
\* registration made in the retry branch.
C18_Witness ==
  /\ listener.stage = "finished"
  /\ listener.last.op = "unregister"
  /\ listener.last.ok
  /\ listener.first = "Err"

\* The thread waits in its loop with a dead connection or a failed
\* registration.
NeedsRetry ==
  /\ listener.stage = "loop"
  /\ ~listener.connected \/ ~IsSome(listener.wrapper)

\* The shell holds the registration the thread's wrapper stands for.
Registered ==
  /\ listener.shell = "up"
  /\ IsSome(listener.wrapper)
  /\ listener.wrapper[1] \in listener.held

\* C19: if no quit is ever requested, a dead connection or a failed
\* registration leads to the old registration being dropped and a fresh
\* attempt; and if the shell is up from some moment on, the listener is
\* registered from some moment on.
C19_EventuallyReregisters ==
  ([]~listener.quit) =>
    /\ NeedsRetry ~> listener.stage = "new"
    /\ (<>[](listener.stage # "none" /\ listener.shell = "up")) => <>[]Registered

\* The first registration failed, the retry succeeded, no quit was requested.
C19_Witness ==
  /\ Registered
  /\ listener.stage = "loop"
  /\ listener.first = "Err"
  /\ ~listener.quit

\* C20: DesktopEventThread::new returns an error when the listener could
\* not register, and the consumer is told when registration has failed
\* MaxFailures times in a row.
C20_ConsumerIsTold ==
  /\ listener.first = "Err" => listener.new_result = "Err"
  /\ listener.failures >= MaxFailures => listener.reported

\* This step is taken by the thread that owns the DesktopEventThread, in
\* new, stop or drop.
OwnerStep ==
  \/ listener.stage = "none" /\ listener'.stage = "spawned"
  \/ listener'.stopper # listener.stopper

\* A call of stop has returned.
StopReturned == listener.stops >= 1 /\ listener.stopper = "idle"

Registration ==
  <<listener.wrapper, listener.last, listener.outstanding, listener.stray,
    listener.first, listener.failures>>

\* C22: register and unregister are called in steps of the listener thread
\* only, one call per step of that one thread; a step of the thread that
\* calls new, stop or drop makes no call and leaves the wrapper alone.
C22_OnlyListenerThreadCalls ==
  [][ /\ OwnerStep =>
           /\ Registration' = Registration
           /\ listener'.held = listener.held
           /\ ~RegisterStep /\ ~DropStep
      /\ (Registration' # Registration) =>
           /\ ~OwnerStep
           /\ listener.stage \in {"spawned", "new", "drop", "loop"}
           /\ listener'.stage # listener.stage
           /\ RegisterStep \/ UnregisterStep
           /\ ~(RegisterStep /\ UnregisterStep) ]_vars

\* While the owner is inside stop, waiting in join, the listener thread has
\* unregistered its cookie in the retry branch.
C22_Witness ==
  /\ listener.stopper = "join"
  /\ listener.stage = "new"
  /\ listener.last.op = "unregister"
  /\ listener.last.ok

\* C23: a failure status of a shell call made by the listener is not
\* swallowed: when the thread's last call, the unregister of its wrapper's
\* drop, failed, the caller of stop gets an error or the consumer is told.
C23_ListenerStatusNotSwallowed ==
  (/\ StopReturned
   /\ listener.last.op = "unregister"
   /\ ~listener.last.ok)
    => (listener.stop_result = "Err" \/ listener.reported)


\* ======================================= part 6: the declared method tables
\* The logical interfaces every version module declares.
InterfaceNames ==
  {"IApplicationView", "IApplicationViewCollection", "IVirtualDesktop",
   "IVirtualDesktopManagerInternal", "IVirtualDesktopNotification",
   "IVirtualDesktopNotificationService", "IVirtualDesktopPinnedApps"}

\* The version modules of interfaces_multi/, ascending by (build, patch).
ModuleFiles ==
  <<"build_10240", "build_17134", "build_17663", "build_19044_4355",
    "build_19045", "build_22000", "build_22621_2215", "build_22631_2428",
    "build_26100">>

\* reusable_com_interface! with its own trait: the interface is declared
\* with this IID and this method table. An IID is written in upper case here,
\* GUID::from reads either case to the same value.
Own(iid, table) == Some([iid |-> iid, table |-> Some(table)])

\* The macro reusable_com_interface! defines for an interface, invoked in
\* another module as prev::Name!("iid"): the same trait, and so the same
\* method table, declared again with the IID given. prev is None when the
\* module named is not among the files: the table is not known then.
Redeclare(prev, iid) ==
  IF IsSome(prev)
  THEN Some([prev[1] EXCEPT !.iid = iid])
  ELSE Some([iid |-> iid, table |-> None])

\* A module that other modules name in `use .. as prev_build` and that is
\* not among the files (build_16299, build_22621_3155).
NoModule(iface) == None


\* build_10240::IApplicationView, its methods in slot order after IUnknown's, each with the
\* types of its parameters.
build_10240_IApplicationView ==
  << [fname |-> "get_iids", params |-> <<"*mut ULONG", "*mut *mut GUID">>],
     [fname |-> "get_runtime_class_name", params |-> <<"*mut HSTRING">>],
     [fname |-> "get_trust_level", params |-> <<"LPVOID">>],
     [fname |-> "set_focus", params |-> <<>>],
     [fname |-> "switch_to", params |-> <<>>],
     [fname |-> "try_invoke_back", params |-> <<"IAsyncCallback">>],
     [fname |-> "get_thumbnail_window", params |-> <<"*mut HWND">>],
     [fname |-> "get_monitor", params |-> <<"*mut *mut IImmersiveMonitor">>],
     [fname |-> "get_visibility", params |-> <<"LPVOID">>],
     [fname |-> "set_cloak", params |-> <<"APPLICATION_VIEW_CLOAK_TYPE", "INT">>],
     [fname |-> "get_position", params |-> <<"*const GUID", "LPVOID">>],
     [fname |-> "set_position", params |-> <<"*mut IApplicationViewPosition">>],
     [fname |-> "insert_after_window", params |-> <<"HWND">>],
     [fname |-> "get_extended_frame_position", params |-> <<"*mut RECT">>],
     [fname |-> "get_app_user_model_id", params |-> <<"*mut PWSTR">>],
     [fname |-> "set_app_user_model_id", params |-> <<"PCWSTR">>],
     [fname |-> "is_equal_by_app_user_model_id", params |-> <<"PCWSTR", "*mut INT">>],
     [fname |-> "get_view_state", params |-> <<"*mut UINT">>],
     [fname |-> "set_view_state", params |-> <<"UINT">>],
     [fname |-> "get_neediness", params |-> <<"*mut INT">>],
     [fname |-> "get_last_activation_timestamp", params |-> <<"*mut ULONGLONG">>],
     [fname |-> "set_last_activation_timestamp", params |-> <<"ULONGLONG">>],
     [fname |-> "get_virtual_desktop_id", params |-> <<"*mut GUID">>],
     [fname |-> "set_virtual_desktop_id", params |-> <<"*const GUID">>],
     [fname |-> "get_show_in_switchers", params |-> <<"*mut INT">>],
     [fname |-> "set_show_in_switchers", params |-> <<"INT">>],
     [fname |-> "get_scale_factor", params |-> <<"*mut INT">>],
     [fname |-> "can_receive_input", params |-> <<"*mut BOOL">>],
     [fname |-> "get_compatibility_policy_type", params |-> <<"*mut APPLICATION_VIEW_COMPATIBILITY_POLICY">>],
     [fname |-> "set_compatibility_policy_type", params |-> <<"APPLICATION_VIEW_COMPATIBILITY_POLICY">>],
     [fname |-> "get_position_priority", params |-> <<"*mut IShellPositionerPriority">>],
     [fname |-> "set_position_priority", params |-> <<"IShellPositionerPriority">>],
     [fname |-> "get_size_constraints", params |-> <<"*mut IImmersiveMonitor", "*mut SIZE", "*mut SIZE">>],
     [fname |-> "get_size_constraints_for_dpi", params |-> <<"UINT", "*mut SIZE", "*mut SIZE">>],
     [fname |-> "set_size_constraints_for_dpi", params |-> <<"*const UINT", "*const SIZE", "*const SIZE">>],
     [fname |-> "query_size_constraints_from_app", params |-> <<>>],
     [fname |-> "on_min_size_preferences_updated", params |-> <<"HWND">>],
     [fname |-> "apply_operation", params |-> <<"*mut IApplicationViewOperation">>],
     [fname |-> "is_tray", params |-> <<"*mut BOOL">>],
     [fname |-> "is_in_high_zorder_band", params |-> <<"*mut BOOL">>],
     [fname |-> "is_splash_screen_presented", params |-> <<"*mut BOOL">>],
     [fname |-> "flash", params |-> <<>>],
     [fname |-> "get_root_switchable_owner", params |-> <<"*mut IApplicationView">>],
     [fname |-> "enumerate_ownership_tree", params |-> <<"*mut IObjectArray">>],
     [fname |-> "get_enterprise_id", params |-> <<"*mut PWSTR">>],
     [fname |-> "is_mirrored", params |-> <<"*mut BOOL">>],
     [fname |-> "unknown1", params |-> <<"*mut INT">>],
     [fname |-> "unknown2", params |-> <<"*mut INT">>],
     [fname |-> "unknown3", params |-> <<"*mut INT">>],
     [fname |-> "unknown4", params |-> <<"INT">>],
     [fname |-> "unknown5", params |-> <<"*mut INT">>],
     [fname |-> "unknown6", params |-> <<"INT">>],
     [fname |-> "unknown7", params |-> <<>>],
     [fname |-> "unknown8", params |-> <<"*mut INT">>],
     [fname |-> "unknown9", params |-> <<"INT">>],
     [fname |-> "unknown10", params |-> <<"INT", "INT">>],
     [fname |-> "unknown11", params |-> <<"INT">>],
     [fname |-> "unknown12", params |-> <<"*mut SIZE">>] >>

\* build_10240::IApplicationViewCollection, its methods in slot order after IUnknown's, each with the
\* types of its parameters.
build_10240_IApplicationViewCollection ==
  << [fname |-> "get_views", params |-> <<"*mut IObjectArray">>],
     [fname |-> "get_views_by_zorder", params |-> <<"*mut IObjectArray">>],
     [fname |-> "get_views_by_app_user_model_id", params |-> <<"PCWSTR", "*mut IObjectArray">>],
     [fname |-> "get_view_for_hwnd", params |-> <<"HWND", "*mut Option<IApplicationView>">>],
     [fname |-> "get_view_for_application", params |-> <<"IImmersiveApplication", "*mut IApplicationView">>],
     [fname |-> "get_view_for_app_user_model_id", params |-> <<"PCWSTR", "*mut IApplicationView">>],
     [fname |-> "get_view_in_focus", params |-> <<"*mut IApplicationView">>],
     [fname |-> "refresh_collection", params |-> <<>>],
     [fname |-> "register_for_application_view_changes", params |-> <<"IApplicationViewChangeListener", "*mut DWORD">>],
     [fname |-> "register_for_application_view_position_changes", params |-> <<"IApplicationViewChangeListener", "*mut DWORD">>],
     [fname |-> "unregister_for_application_view_changes", params |-> <<"DWORD">>] >>

\* build_10240::IVirtualDesktop, its methods in slot order after IUnknown's, each with the
\* types of its parameters.
build_10240_IVirtualDesktop ==
  << [fname |-> "is_view_visible", params |-> <<"ComIn<IApplicationView>", "*mut u32">>],
     [fname |-> "get_id", params |-> <<"*mut GUID">>] >>

\* build_10240::IVirtualDesktopManagerInternal, its methods in slot order after IUnknown's, each with the
\* types of its parameters.
build_10240_IVirtualDesktopManagerInternal ==
  << [fname |-> "get_desktop_count", params |-> <<"*mut UINT">>],
     [fname |-> "move_view_to_desktop", params |-> <<"ComIn<IApplicationView>", "ComIn<IVirtualDesktop>">>],
     [fname |-> "can_move_view_between_desktops", params |-> <<"ComIn<IApplicationView>", "*mut i32">>],
     [fname |-> "get_current_desktop", params |-> <<"*mut Option<IVirtualDesktop>">>],
     [fname |-> "get_desktops", params |-> <<"*mut Option<IObjectArray>">>],
     [fname |-> "get_adjacent_desktop", params |-> <<"ComIn<IVirtualDesktop>", "UINT", "*mut Option<IVirtualDesktop>">>],
     [fname |-> "switch_desktop", params |-> <<"ComIn<IVirtualDesktop>">>],
     [fname |-> "create_desktop", params |-> <<"*mut Option<IVirtualDesktop>">>],
     [fname |-> "remove_desktop", params |-> <<"ComIn<IVirtualDesktop>", "ComIn<IVirtualDesktop>">>],
     [fname |-> "find_desktop", params |-> <<"*const GUID", "*mut Option<IVirtualDesktop>">>] >>

\* build_10240::IVirtualDesktopNotificationService, its methods in slot order after IUnknown's, each with the
\* types of its parameters.
build_10240_IVirtualDesktopNotificationService ==
  << [fname |-> "register", params |-> <<"*mut std::ffi::c_void", "*mut DWORD">>],
     [fname |-> "unregister", params |-> <<"u32">>] >>

\* build_10240::IVirtualDesktopPinnedApps, its methods in slot order after IUnknown's, each with the
\* types of its parameters.
build_10240_IVirtualDesktopPinnedApps ==
  << [fname |-> "is_app_pinned", params |-> <<"PCWSTR", "*mut bool">>],
     [fname |-> "pin_app", params |-> <<"PCWSTR">>],
     [fname |-> "unpin_app", params |-> <<"PCWSTR">>],
     [fname |-> "is_view_pinned", params |-> <<"ComIn<IApplicationView>", "*mut bool">>],
     [fname |-> "pin_view", params |-> <<"ComIn<IApplicationView>">>],
     [fname |-> "unpin_view", params |-> <<"ComIn<IApplicationView>">>] >>

\* build_17134::IApplicationView, its methods in slot order after IUnknown's, each with the
\* types of its parameters.
build_17134_IApplicationView ==
  << [fname |-> "get_iids", params |-> <<"*mut ULONG", "*mut *mut GUID">>],
     [fname |-> "get_runtime_class_name", params |-> <<"*mut HSTRING">>],
     [fname |-> "get_trust_level", params |-> <<"LPVOID">>],
     [fname |-> "set_focus", params |-> <<>>],
     [fname |-> "switch_to", params |-> <<>>],
     [fname |-> "try_invoke_back", params |-> <<"IAsyncCallback">>],
     [fname |-> "get_thumbnail_window", params |-> <<"*mut HWND">>],
     [fname |-> "get_monitor", params |-> <<"*mut *mut IImmersiveMonitor">>],
     [fname |-> "get_visibility", params |-> <<"LPVOID">>],
     [fname |-> "set_cloak", params |-> <<"APPLICATION_VIEW_CLOAK_TYPE", "INT">>],
     [fname |-> "get_position", params |-> <<"*const GUID", "LPVOID">>],
     [fname |-> "set_position", params |-> <<"*mut IApplicationViewPosition">>],
     [fname |-> "insert_after_window", params |-> <<"HWND">>],
     [fname |-> "get_extended_frame_position", params |-> <<"*mut RECT">>],
     [fname |-> "get_app_user_model_id", params |-> <<"*mut PWSTR">>],
     [fname |-> "set_app_user_model_id", params |-> <<"PCWSTR">>],
     [fname |-> "is_equal_by_app_user_model_id", params |-> <<"PCWSTR", "*mut INT">>],
     [fname |-> "get_view_state", params |-> <<"*mut UINT">>],
     [fname |-> "set_view_state", params |-> <<"UINT">>],
     [fname |-> "get_neediness", params |-> <<"*mut INT">>],
     [fname |-> "get_last_activation_timestamp", params |-> <<"*mut ULONGLONG">>],
     [fname |-> "set_last_activation_timestamp", params |-> <<"ULONGLONG">>],
     [fname |-> "get_virtual_desktop_id", params |-> <<"*mut GUID">>],
     [fname |-> "set_virtual_desktop_id", params |-> <<"*const GUID">>],
     [fname |-> "get_show_in_switchers", params |-> <<"*mut INT">>],
     [fname |-> "set_show_in_switchers", params |-> <<"INT">>],
     [fname |-> "get_scale_factor", params |-> <<"*mut INT">>],
     [fname |-> "can_receive_input", params |-> <<"*mut BOOL">>],
     [fname |-> "get_compatibility_policy_type", params |-> <<"*mut APPLICATION_VIEW_COMPATIBILITY_POLICY">>],
     [fname |-> "set_compatibility_policy_type", params |-> <<"APPLICATION_VIEW_COMPATIBILITY_POLICY">>],
     [fname |-> "get_size_constraints", params |-> <<"*mut IImmersiveMonitor", "*mut SIZE", "*mut SIZE">>],
     [fname |-> "get_size_constraints_for_dpi", params |-> <<"UINT", "*mut SIZE", "*mut SIZE">>],
     [fname |-> "set_size_constraints_for_dpi", params |-> <<"*const UINT", "*const SIZE", "*const SIZE">>],
     [fname |-> "on_min_size_preferences_updated", params |-> <<"HWND">>],
     [fname |-> "apply_operation", params |-> <<"*mut IApplicationViewOperation">>],
     [fname |-> "is_tray", params |-> <<"*mut BOOL">>],
     [fname |-> "is_in_high_zorder_band", params |-> <<"*mut BOOL">>],
     [fname |-> "is_splash_screen_presented", params |-> <<"*mut BOOL">>],
     [fname |-> "flash", params |-> <<>>],
     [fname |-> "get_root_switchable_owner", params |-> <<"*mut IApplicationView">>],
     [fname |-> "enumerate_ownership_tree", params |-> <<"*mut IObjectArray">>],
     [fname |-> "get_enterprise_id", params |-> <<"*mut PWSTR">>],
     [fname |-> "is_mirrored", params |-> <<"*mut BOOL">>],
     [fname |-> "unknown1", params |-> <<"*mut INT">>],
     [fname |-> "unknown2", params |-> <<"*mut INT">>],
     [fname |-> "unknown3", params |-> <<"*mut INT">>],
     [fname |-> "unknown4", params |-> <<"INT">>],
     [fname |-> "unknown5", params |-> <<"*mut INT">>],
     [fname |-> "unknown6", params |-> <<"INT">>],
     [fname |-> "unknown7", params |-> <<>>],
     [fname |-> "unknown8", params |-> <<"*mut INT">>],
     [fname |-> "unknown9", params |-> <<"INT">>],
     [fname |-> "unknown10", params |-> <<"INT", "INT">>],
     [fname |-> "unknown11", params |-> <<"INT">>],
     [fname |-> "unknown12", params |-> <<"*mut SIZE">>] >>

\* build_17663::IApplicationViewCollection, its methods in slot order after IUnknown's, each with the
\* types of its parameters.
build_17663_IApplicationViewCollection ==
  << [fname |-> "get_views", params |-> <<"*mut IObjectArray">>],
     [fname |-> "get_views_by_zorder", params |-> <<"*mut IObjectArray">>],
     [fname |-> "get_views_by_app_user_model_id", params |-> <<"PCWSTR", "*mut IObjectArray">>],
     [fname |-> "get_view_for_hwnd", params |-> <<"HWND", "*mut Option<IApplicationView>">>],
     [fname |-> "get_view_for_application", params |-> <<"IImmersiveApplication", "*mut IApplicationView">>],
     [fname |-> "get_view_for_app_user_model_id", params |-> <<"PCWSTR", "*mut IApplicationView">>],
     [fname |-> "get_view_in_focus", params |-> <<"*mut IApplicationView">>],
     [fname |-> "try_get_last_active_visible_view", params |-> <<"*mut IApplicationView">>],
     [fname |-> "refresh_collection", params |-> <<>>],
     [fname |-> "register_for_application_view_changes", params |-> <<"IApplicationViewChangeListener", "*mut DWORD">>],
     [fname |-> "unregister_for_application_view_changes", params |-> <<"DWORD">>] >>

\* build_22000::IVirtualDesktop, its methods in slot order after IUnknown's, each with the
\* types of its parameters.
build_22000_IVirtualDesktop ==
  << [fname |-> "is_view_visible", params |-> <<"ComIn<IApplicationView>", "*mut u32">>],
     [fname |-> "get_id", params |-> <<"*mut GUID">>],
     [fname |-> "get_monitor", params |-> <<"*mut HMONITOR">>],
     [fname |-> "get_name", params |-> <<"*mut HSTRING">>],
     [fname |-> "get_wallpaper", params |-> <<"*mut HSTRING">>] >>

\* build_22000::IVirtualDesktopManagerInternal, its methods in slot order after IUnknown's, each with the
\* types of its parameters.
build_22000_IVirtualDesktopManagerInternal ==
  << [fname |-> "get_desktop_count_m", params |-> <<"HMONITOR", "*mut UINT">>],
     [fname |-> "move_view_to_desktop", params |-> <<"ComIn<IApplicationView>", "ComIn<IVirtualDesktop>">>],
     [fname |-> "can_move_view_between_desktops", params |-> <<"ComIn<IApplicationView>", "*mut i32">>],
     [fname |-> "get_current_desktop_m", params |-> <<"HMONITOR", "*mut Option<IVirtualDesktop>">>],
     [fname |-> "get_all_current_desktops", params |-> <<"*mut Option<IObjectArray>">>],
     [fname |-> "get_desktops_m", params |-> <<"HMONITOR", "*mut Option<IObjectArray>">>],
     [fname |-> "get_adjacent_desktop", params |-> <<"ComIn<IVirtualDesktop>", "UINT", "*mut Option<IVirtualDesktop>">>],
     [fname |-> "switch_desktop_m", params |-> <<"HMONITOR", "ComIn<IVirtualDesktop>">>],
     [fname |-> "create_desktop_m", params |-> <<"HMONITOR", "*mut Option<IVirtualDesktop>">>],
     [fname |-> "move_desktop_m", params |-> <<"ComIn<IVirtualDesktop>", "HMONITOR", "UINT">>],
     [fname |-> "remove_desktop", params |-> <<"ComIn<IVirtualDesktop>", "ComIn<IVirtualDesktop>">>],
     [fname |-> "find_desktop", params |-> <<"*const GUID", "*mut Option<IVirtualDesktop>">>],
     [fname |-> "get_desktop_switch_include_exclude_views", params |-> <<"ComIn<IVirtualDesktop>", "*mut IObjectArray", "*mut IObjectArray">>],
     [fname |-> "set_name", params |-> <<"ComIn<IVirtualDesktop>", "HSTRING">>],
     [fname |-> "set_wallpaper", params |-> <<"ComIn<IVirtualDesktop>", "HSTRING">>],
     [fname |-> "update_wallpaper_for_all", params |-> <<"HSTRING">>],
     [fname |-> "copy_desktop_state", params |-> <<"ComIn<IApplicationView>", "ComIn<IApplicationView>">>],
     [fname |-> "get_desktop_is_per_monitor", params |-> <<"*mut i32">>],
     [fname |-> "set_desktop_is_per_monitor", params |-> <<"i32">>] >>

\* build_22621_2215::IVirtualDesktop, its methods in slot order after IUnknown's, each with the
\* types of its parameters.
build_22621_2215_IVirtualDesktop ==
  << [fname |-> "is_view_visible", params |-> <<"ComIn<IApplicationView>", "*mut u32">>],
     [fname |-> "get_id", params |-> <<"*mut GUID">>],
     [fname |-> "get_name", params |-> <<"*mut HSTRING">>],
     [fname |-> "get_wallpaper", params |-> <<"*mut HSTRING">>],
     [fname |-> "is_remote", params |-> <<"*mut i32">>] >>

\* build_22621_2215::IVirtualDesktopManagerInternal, its methods in slot order after IUnknown's, each with the
\* types of its parameters.
build_22621_2215_IVirtualDesktopManagerInternal ==
  << [fname |-> "get_desktop_count", params |-> <<"*mut UINT">>],
     [fname |-> "move_view_to_desktop", params |-> <<"ComIn<IApplicationView>", "ComIn<IVirtualDesktop>">>],
     [fname |-> "can_move_view_between_desktops", params |-> <<"ComIn<IApplicationView>", "*mut i32">>],
     [fname |-> "get_current_desktop", params |-> <<"*mut Option<IVirtualDesktop>">>],
     [fname |-> "get_desktops", params |-> <<"*mut Option<IObjectArray>">>],
     [fname |-> "get_adjacent_desktop", params |-> <<"ComIn<IVirtualDesktop>", "UINT", "*mut Option<IVirtualDesktop>">>],
     [fname |-> "switch_desktop", params |-> <<"ComIn<IVirtualDesktop>">>],
     [fname |-> "create_desktop", params |-> <<"*mut Option<IVirtualDesktop>">>],
     [fname |-> "move_desktop", params |-> <<"ComIn<IVirtualDesktop>", "UINT">>],
     [fname |-> "remove_desktop", params |-> <<"ComIn<IVirtualDesktop>", "ComIn<IVirtualDesktop>">>],
     [fname |-> "find_desktop", params |-> <<"*const GUID", "*mut Option<IVirtualDesktop>">>],
     [fname |-> "get_desktop_switch_include_exclude_views", params |-> <<"ComIn<IVirtualDesktop>", "*mut IObjectArray", "*mut IObjectArray">>],
     [fname |-> "set_name", params |-> <<"ComIn<IVirtualDesktop>", "HSTRING">>],
     [fname |-> "set_wallpaper", params |-> <<"ComIn<IVirtualDesktop>", "HSTRING">>],
     [fname |-> "update_wallpaper_for_all", params |-> <<"HSTRING">>],
     [fname |-> "copy_desktop_state", params |-> <<"ComIn<IApplicationView>", "ComIn<IApplicationView>">>],
     [fname |-> "create_remote_desktop", params |-> <<"HSTRING", "*mut Option<IVirtualDesktop>">>],
     [fname |-> "switch_remote_desktop", params |-> <<"ComIn<IVirtualDesktop>">>],
     [fname |-> "switch_desktop_with_animation", params |-> <<"ComIn<IVirtualDesktop>">>],
     [fname |-> "get_last_active_desktop", params |-> <<"*mut Option<IVirtualDesktop>">>],
     [fname |-> "wait_for_animation_to_complete", params |-> <<>>] >>

\* build_26100::IApplicationView, its methods in slot order after IUnknown's, each with the
\* types of its parameters.
build_26100_IApplicationView ==
  << [fname |-> "get_iids", params |-> <<"*mut ULONG", "*mut *mut GUID">>],
     [fname |-> "get_runtime_class_name", params |-> <<"*mut HSTRING">>],
     [fname |-> "get_trust_level", params |-> <<"LPVOID">>],
     [fname |-> "set_focus", params |-> <<>>],
     [fname |-> "switch_to", params |-> <<>>],
     [fname |-> "try_invoke_back", params |-> <<"IAsyncCallback">>],
     [fname |-> "get_thumbnail_window", params |-> <<"*mut HWND">>],
     [fname |-> "get_monitor", params |-> <<"*mut *mut IImmersiveMonitor">>],
     [fname |-> "get_visibility", params |-> <<"LPVOID">>],
     [fname |-> "set_cloak", params |-> <<"APPLICATION_VIEW_CLOAK_TYPE", "INT">>],
     [fname |-> "get_position", params |-> <<"*const GUID", "LPVOID">>],
     [fname |-> "set_position", params |-> <<"*mut IApplicationViewPosition">>],
     [fname |-> "insert_after_window", params |-> <<"HWND">>],
     [fname |-> "get_extended_frame_position", params |-> <<"*mut RECT">>],
     [fname |-> "get_app_user_model_id", params |-> <<"*mut PWSTR">>],
     [fname |-> "set_app_user_model_id", params |-> <<"PCWSTR">>],
     [fname |-> "is_equal_by_app_user_model_id", params |-> <<"PCWSTR", "*mut INT">>],
     [fname |-> "get_view_state", params |-> <<"*mut UINT">>],
     [fname |-> "set_view_state", params |-> <<"UINT">>],
     [fname |-> "get_neediness", params |-> <<"*mut INT">>],
     [fname |-> "get_last_activation_timestamp", params |-> <<"*mut ULONGLONG">>],
     [fname |-> "set_last_activation_timestamp", params |-> <<"ULONGLONG">>],
     [fname |-> "get_virtual_desktop_id", params |-> <<"*mut GUID">>],
     [fname |-> "set_virtual_desktop_id", params |-> <<"*const GUID">>],
     [fname |-> "get_show_in_switchers", params |-> <<"*mut INT">>],
     [fname |-> "set_show_in_switchers", params |-> <<"INT">>],
     [fname |-> "get_scale_factor", params |-> <<"*mut INT">>],
     [fname |-> "can_receive_input", params |-> <<"*mut BOOL">>],
     [fname |-> "get_compatibility_policy_type", params |-> <<"*mut APPLICATION_VIEW_COMPATIBILITY_POLICY">>],
     [fname |-> "set_compatibility_policy_type", params |-> <<"APPLICATION_VIEW_COMPATIBILITY_POLICY">>],
     [fname |-> "get_size_constraints", params |-> <<"*mut IImmersiveMonitor", "*mut SIZE", "*mut SIZE">>],
     [fname |-> "get_size_constraints_for_dpi", params |-> <<"UINT", "*mut SIZE", "*mut SIZE">>],
     [fname |-> "set_size_constraints_for_dpi", params |-> <<"*const UINT", "*const SIZE", "*const SIZE">>],
     [fname |-> "on_min_size_preferences_updated", params |-> <<"HWND">>],
     [fname |-> "apply_operation", params |-> <<"*mut IApplicationViewOperation">>],
     [fname |-> "is_tray", params |-> <<"*mut BOOL">>],
     [fname |-> "is_in_high_zorder_band", params |-> <<"*mut BOOL">>],
     [fname |-> "is_splash_screen_presented", params |-> <<"*mut BOOL">>],
     [fname |-> "flash", params |-> <<>>],
     [fname |-> "get_root_switchable_owner", params |-> <<"*mut IApplicationView">>],
     [fname |-> "enumerate_ownership_tree", params |-> <<"*mut IObjectArray">>],
     [fname |-> "get_enterprise_id", params |-> <<"*mut PWSTR">>],
     [fname |-> "is_mirrored", params |-> <<"*mut BOOL">>],
     [fname |-> "unknown1", params |-> <<"*mut INT">>],
     [fname |-> "unknown2", params |-> <<"*mut INT">>],
     [fname |-> "unknown3", params |-> <<"*mut INT">>],
     [fname |-> "unknown4", params |-> <<"INT">>],
     [fname |-> "unknown5", params |-> <<"*mut INT">>],
     [fname |-> "unknown6", params |-> <<"INT">>],
     [fname |-> "unknown7", params |-> <<>>],
     [fname |-> "unknown8", params |-> <<"*mut INT">>],
     [fname |-> "unknown9", params |-> <<"INT">>],
     [fname |-> "unknown10", params |-> <<"INT", "INT">>],
     [fname |-> "unknown11", params |-> <<"INT">>],
     [fname |-> "unknown12", params |-> <<"*mut SIZE">>] >>

\* build_26100::IApplicationViewCollection, its methods in slot order after IUnknown's, each with the
\* types of its parameters.
build_26100_IApplicationViewCollection ==
  << [fname |-> "get_views", params |-> <<"*mut IObjectArray">>],
     [fname |-> "get_views_by_zorder", params |-> <<"*mut IObjectArray">>],
     [fname |-> "get_views_by_app_user_model_id", params |-> <<"PCWSTR", "*mut IObjectArray">>],
     [fname |-> "get_view_for_hwnd", params |-> <<"HWND", "*mut Option<IApplicationView>">>],
     [fname |-> "get_view_for_application", params |-> <<"IImmersiveApplication", "*mut IApplicationView">>],
     [fname |-> "get_view_for_app_user_model_id", params |-> <<"PCWSTR", "*mut IApplicationView">>],
     [fname |-> "get_view_in_focus", params |-> <<"*mut IApplicationView">>],
     [fname |-> "try_get_last_active_visible_view", params |-> <<"*mut IApplicationView">>],
     [fname |-> "refresh_collection", params |-> <<>>],
     [fname |-> "register_for_application_view_changes", params |-> <<"IApplicationViewChangeListener", "*mut DWORD">>],
     [fname |-> "unregister_for_application_view_changes", params |-> <<"DWORD">>] >>

\* build_26100::IVirtualDesktopManagerInternal, its methods in slot order after IUnknown's, each with the
\* types of its parameters.
build_26100_IVirtualDesktopManagerInternal ==
  << [fname |-> "get_desktop_count", params |-> <<"*mut UINT">>],
     [fname |-> "move_view_to_desktop", params |-> <<"ComIn<IApplicationView>", "ComIn<IVirtualDesktop>">>],
     [fname |-> "can_move_view_between_desktops", params |-> <<"ComIn<IApplicationView>", "*mut i32">>],
     [fname |-> "get_current_desktop", params |-> <<"*mut Option<IVirtualDesktop>">>],
     [fname |-> "get_desktops", params |-> <<"*mut Option<IObjectArray>">>],
     [fname |-> "get_adjacent_desktop", params |-> <<"ComIn<IVirtualDesktop>", "UINT", "*mut Option<IVirtualDesktop>">>],
     [fname |-> "switch_desktop", params |-> <<"ComIn<IVirtualDesktop>">>],
     [fname |-> "switch_desktop_and_move_foreground_view", params |-> <<"ComIn<IVirtualDesktop>">>],
     [fname |-> "create_desktop", params |-> <<"*mut Option<IVirtualDesktop>">>],
     [fname |-> "move_desktop", params |-> <<"ComIn<IVirtualDesktop>", "UINT">>],
     [fname |-> "remove_desktop", params |-> <<"ComIn<IVirtualDesktop>", "ComIn<IVirtualDesktop>">>],
     [fname |-> "find_desktop", params |-> <<"*const GUID", "*mut Option<IVirtualDesktop>">>],
     [fname |-> "get_desktop_switch_include_exclude_views", params |-> <<"ComIn<IVirtualDesktop>", "*mut IObjectArray", "*mut IObjectArray">>],
     [fname |-> "set_name", params |-> <<"ComIn<IVirtualDesktop>", "HSTRING">>],
     [fname |-> "set_wallpaper", params |-> <<"ComIn<IVirtualDesktop>", "HSTRING">>],
     [fname |-> "update_wallpaper_for_all", params |-> <<"HSTRING">>],
     [fname |-> "copy_desktop_state", params |-> <<"ComIn<IApplicationView>", "ComIn<IApplicationView>">>],
     [fname |-> "create_remote_desktop", params |-> <<"HSTRING", "*mut Option<IVirtualDesktop>">>],
     [fname |-> "switch_remote_desktop", params |-> <<"ComIn<IVirtualDesktop>">>],
     [fname |-> "switch_desktop_with_animation", params |-> <<"ComIn<IVirtualDesktop>">>],
     [fname |-> "get_last_active_desktop", params |-> <<"*mut Option<IVirtualDesktop>">>],
     [fname |-> "wait_for_animation_to_complete", params |-> <<>>] >>

\* The interfaces mod build_10240 declares.
build_10240_interfaces(iface) ==
  CASE iface = "IApplicationView" ->
         Own("9AC0B5C8-1484-4C5B-9533-4134A0F97CEA", build_10240_IApplicationView)
    [] iface = "IApplicationViewCollection" ->
         Own("2C08ADF0-A386-4B35-9250-0FE183476FCC", build_10240_IApplicationViewCollection)
    [] iface = "IVirtualDesktop" ->
         Own("FF72FFDD-BE7E-43FC-9C03-AD81681E88E4", build_10240_IVirtualDesktop)
    [] iface = "IVirtualDesktopManagerInternal" ->
         Own("F31574D6-B682-4CDC-BD56-1827860ABEC6", build_10240_IVirtualDesktopManagerInternal)
    [] iface = "IVirtualDesktopNotification" ->
         Own("C179334C-4295-40D3-BEA1-C654D965605A", build_10240_IVirtualDesktopNotification)
    [] iface = "IVirtualDesktopNotificationService" ->
         Own("0CD45E71-D927-4F15-8B0A-8FEF525337BF", build_10240_IVirtualDesktopNotificationService)
    [] iface = "IVirtualDesktopPinnedApps" ->
         Own("4CE81583-1E4C-4632-A621-07A53543148F", build_10240_IVirtualDesktopPinnedApps)
    [] OTHER -> None

\* The interfaces mod build_17134 declares.
build_17134_interfaces(iface) ==
  CASE iface = "IApplicationView" ->
         Own("871F602A-2B58-42B4-8C4B-6C43D642C06F", build_17134_IApplicationView)
    [] iface = "IApplicationViewCollection" ->
         Redeclare(NoModule(iface), "2C08ADF0-A386-4B35-9250-0FE183476FCC")
    [] iface = "IVirtualDesktop" ->
         Redeclare(NoModule(iface), "FF72FFDD-BE7E-43FC-9C03-AD81681E88E4")
    [] iface = "IVirtualDesktopManagerInternal" ->
         Redeclare(NoModule(iface), "F31574D6-B682-4CDC-BD56-1827860ABEC6")
    [] iface = "IVirtualDesktopNotification" ->
         Redeclare(NoModule(iface), "C179334C-4295-40D3-BEA1-C654D965605A")
    [] iface = "IVirtualDesktopNotificationService" ->
         Redeclare(NoModule(iface), "0CD45E71-D927-4F15-8B0A-8FEF525337BF")
    [] iface = "IVirtualDesktopPinnedApps" ->
         Redeclare(NoModule(iface), "4CE81583-1E4C-4632-A621-07A53543148F")
    [] OTHER -> None

\* The interfaces mod build_17663 declares.
build_17663_interfaces(iface) ==
  CASE iface = "IApplicationView" ->
         Redeclare(build_17134_interfaces(iface), "871F602A-2B58-42B4-8C4B-6C43D642C06F")
    [] iface = "IApplicationViewCollection" ->
         Own("1841C6D7-4F9D-42C0-AF41-8747538F10E5", build_17663_IApplicationViewCollection)
    [] iface = "IVirtualDesktop" ->
         Redeclare(build_17134_interfaces(iface), "FF72FFDD-BE7E-43FC-9C03-AD81681E88E4")
    [] iface = "IVirtualDesktopManagerInternal" ->
         Redeclare(build_17134_interfaces(iface), "F31574D6-B682-4CDC-BD56-1827860ABEC6")
    [] iface = "IVirtualDesktopNotification" ->
         Redeclare(build_17134_interfaces(iface), "C179334C-4295-40D3-BEA1-C654D965605A")
    [] iface = "IVirtualDesktopNotificationService" ->
         Redeclare(build_17134_interfaces(iface), "0CD45E71-D927-4F15-8B0A-8FEF525337BF")
    [] iface = "IVirtualDesktopPinnedApps" ->
         Redeclare(build_17134_interfaces(iface), "4CE81583-1E4C-4632-A621-07A53543148F")
    [] OTHER -> None

\* The interfaces mod build_19044_4355 declares.
build_19044_4355_interfaces(iface) ==
  CASE iface = "IApplicationView" ->
         Redeclare(build_17663_interfaces(iface), "372E1D3B-38D3-42E4-A15B-8AB2B178F513")
    [] iface = "IApplicationViewCollection" ->
         Redeclare(build_17663_interfaces(iface), "1841C6D7-4F9D-42C0-AF41-8747538F10E5")
    [] iface = "IVirtualDesktop" ->
         Redeclare(build_17663_interfaces(iface), "FF72FFDD-BE7E-43FC-9C03-AD81681E88E4")
    [] iface = "IVirtualDesktopManagerInternal" ->
         Redeclare(build_17663_interfaces(iface), "F31574D6-B682-4CDC-BD56-1827860ABEC6")
    [] iface = "IVirtualDesktopNotification" ->
         Redeclare(build_17663_interfaces(iface), "C179334C-4295-40D3-BEA1-C654D965605A")
    [] iface = "IVirtualDesktopNotificationService" ->
         Redeclare(build_17663_interfaces(iface), "0CD45E71-D927-4F15-8B0A-8FEF525337BF")
    [] iface = "IVirtualDesktopPinnedApps" ->
         Redeclare(build_17663_interfaces(iface), "4CE81583-1E4C-4632-A621-07A53543148F")
    [] OTHER -> None

\* The interfaces mod build_19045 declares.
build_19045_interfaces(iface) ==
  CASE iface = "IApplicationView" ->
         Redeclare(build_10240_interfaces(iface), "372E1D3B-38D3-42E4-A15B-8AB2B178F513")
    [] iface = "IApplicationViewCollection" ->
         Redeclare(build_10240_interfaces(iface), "1841C6D7-4F9D-42C0-AF41-8747538F10E5")
    [] iface = "IVirtualDesktop" ->
         Redeclare(build_10240_interfaces(iface), "FF72FFDD-BE7E-43FC-9C03-AD81681E88E4")
    [] iface = "IVirtualDesktopManagerInternal" ->
         Redeclare(build_10240_interfaces(iface), "F31574D6-B682-4CDC-BD56-1827860ABEC6")
    [] iface = "IVirtualDesktopNotification" ->
         Redeclare(build_10240_interfaces(iface), "C179334C-4295-40D3-BEA1-C654D965605A")
    [] iface = "IVirtualDesktopNotificationService" ->
         Redeclare(build_10240_interfaces(iface), "0CD45E71-D927-4F15-8B0A-8FEF525337BF")
    [] iface = "IVirtualDesktopPinnedApps" ->
         Redeclare(build_10240_interfaces(iface), "4CE81583-1E4C-4632-A621-07A53543148F")
    [] OTHER -> None

\* The interfaces mod build_22000 declares.
build_22000_interfaces(iface) ==
  CASE iface = "IApplicationView" ->
         Redeclare(build_10240_interfaces(iface), "372E1D3B-38D3-42E4-A15B-8AB2B178F513")
    [] iface = "IApplicationViewCollection" ->
         Redeclare(build_10240_interfaces(iface), "1841C6D7-4F9D-42C0-AF41-8747538F10E5")
    [] iface = "IVirtualDesktop" ->
         Own("536D3495-B208-4CC9-AE26-DE8111275BF8", build_22000_IVirtualDesktop)
    [] iface = "IVirtualDesktopManagerInternal" ->
         Own("B2F925B9-5A0F-4D2E-9F4D-2B1507593C10", build_22000_IVirtualDesktopManagerInternal)
    [] iface = "IVirtualDesktopNotification" ->
         Own("CD403E52-DEED-4C13-B437-B98380F2B1E8", build_22000_IVirtualDesktopNotification)
    [] iface = "IVirtualDesktopNotificationService" ->
         Redeclare(build_10240_interfaces(iface), "0CD45E71-D927-4F15-8B0A-8FEF525337BF")
    [] iface = "IVirtualDesktopPinnedApps" ->
         Redeclare(build_10240_interfaces(iface), "4CE81583-1E4C-4632-A621-07A53543148F")
    [] OTHER -> None

\* The interfaces mod build_22621_2215 declares.
build_22621_2215_interfaces(iface) ==
  CASE iface = "IApplicationView" ->
         Redeclare(build_10240_interfaces(iface), "372E1D3B-38D3-42E4-A15B-8AB2B178F513")
    [] iface = "IApplicationViewCollection" ->
         Redeclare(build_10240_interfaces(iface), "1841C6D7-4F9D-42C0-AF41-8747538F10E5")
    [] iface = "IVirtualDesktop" ->
         Own("3F07F4BE-B107-441A-AF0F-39D82529072C", build_22621_2215_IVirtualDesktop)
    [] iface = "IVirtualDesktopManagerInternal" ->
         Own("A3175F2D-239C-4BD2-8AA0-EEBA8B0B138E", build_22621_2215_IVirtualDesktopManagerInternal)
    [] iface = "IVirtualDesktopNotification" ->
         Own("B287FA1C-7771-471A-A2DF-9B6B21F0D675", build_22621_2215_IVirtualDesktopNotification)
    [] iface = "IVirtualDesktopNotificationService" ->
         Redeclare(build_10240_interfaces(iface), "0CD45E71-D927-4F15-8B0A-8FEF525337BF")
    [] iface = "IVirtualDesktopPinnedApps" ->
         Redeclare(build_10240_interfaces(iface), "4CE81583-1E4C-4632-A621-07A53543148F")
    [] OTHER -> None

\* The interfaces mod build_22631_2428 declares.
build_22631_2428_interfaces(iface) ==
  CASE iface = "IApplicationView" ->
         Redeclare(NoModule(iface), "372E1D3B-38D3-42E4-A15B-8AB2B178F513")
    [] iface = "IApplicationViewCollection" ->
         Redeclare(NoModule(iface), "1841C6D7-4F9D-42C0-AF41-8747538F10E5")
    [] iface = "IVirtualDesktop" ->
         Redeclare(NoModule(iface), "3F07F4BE-B107-441A-AF0F-39D82529072C")
    [] iface = "IVirtualDesktopManagerInternal" ->
         Redeclare(NoModule(iface), "A3175F2D-239C-4BD2-8AA0-EEBA8B0B138E")
    [] iface = "IVirtualDesktopNotification" ->
         Redeclare(NoModule(iface), "B287FA1C-7771-471A-A2DF-9B6B21F0D675")
    [] iface = "IVirtualDesktopNotificationService" ->
         Redeclare(NoModule(iface), "0CD45E71-D927-4F15-8B0A-8FEF525337BF")
    [] iface = "IVirtualDesktopPinnedApps" ->
         Redeclare(NoModule(iface), "4CE81583-1E4C-4632-A621-07A53543148F")
    [] OTHER -> None

\* The interfaces mod build_26100 declares.
build_26100_interfaces(iface) ==
  CASE iface = "IApplicationView" ->
         Own("372E1D3B-38D3-42E4-A15B-8AB2B178F513", build_26100_IApplicationView)
    [] iface = "IApplicationViewCollection" ->
         Own("1841C6D7-4F9D-42C0-AF41-8747538F10E5", build_26100_IApplicationViewCollection)
    [] iface = "IVirtualDesktop" ->
         Redeclare(build_22621_2215_interfaces(iface), "3F07F4BE-B107-441A-AF0F-39D82529072C")
    [] iface = "IVirtualDesktopManagerInternal" ->
         Own("53F5CA0B-158F-4124-900C-057158060B27", build_26100_IVirtualDesktopManagerInternal)
    [] iface = "IVirtualDesktopNotification" ->
         Redeclare(build_22621_2215_interfaces(iface), "B9E5E94D-233E-49AB-AF5C-2B4541C3AADE")
    [] iface = "IVirtualDesktopNotificationService" ->
         Redeclare(build_22621_2215_interfaces(iface), "0CD45E71-D927-4F15-8B0A-8FEF525337BF")
    [] iface = "IVirtualDesktopPinnedApps" ->
         Redeclare(build_22621_2215_interfaces(iface), "4CE81583-1E4C-4632-A621-07A53543148F")
    [] OTHER -> None

\* The declaration of an interface in a module: its IID and its method
\* table, when the table is known.
Declared(module, iface) ==
  CASE module = "build_10240" -> build_10240_interfaces(iface)
    [] module = "build_17134" -> build_17134_interfaces(iface)
    [] module = "build_17663" -> build_17663_interfaces(iface)
    [] module = "build_19044_4355" -> build_19044_4355_interfaces(iface)
    [] module = "build_19045" -> build_19045_interfaces(iface)
    [] module = "build_22000" -> build_22000_interfaces(iface)
    [] module = "build_22621_2215" -> build_22621_2215_interfaces(iface)
    [] module = "build_22631_2428" -> build_22631_2428_interfaces(iface)
    [] module = "build_26100" -> build_26100_interfaces(iface)

\* The shorter of two lengths.
Min(a, b) == IF a <= b THEN a ELSE b

\* Two modules v1 < v2 that declare the interface with one IID are taken and
\* their tables are compared from the first slot on.
audit_begin ==
  /\ audit.stage = "none"
  /\ \E iface \in InterfaceNames, v1, v2 \in 1..Len(ModuleFiles) :
       LET d1 == Declared(ModuleFiles[v1], iface)
           d2 == Declared(ModuleFiles[v2], iface)
       IN /\ v1 < v2
          /\ IsSome(d1) /\ IsSome(d2)
          /\ IsSome(d1[1].table) /\ IsSome(d2[1].table)
          /\ d1[1].iid = d2[1].iid
          /\ audit' = [stage |-> "slots", iface |-> iface, v1 |-> v1,
                       v2 |-> v2, slot |-> 1, agree |-> TRUE]
  /\ UNCHANGED <<regVars, dispVars, com, sink, listener>>

\* The next slot of the common prefix: the name and the parameter types of
\* the method the two tables have there.
audit_slot ==
  /\ audit.stage = "slots"
  /\ LET t1 == Declared(ModuleFiles[audit.v1], audit.iface)[1].table[1]
         t2 == Declared(ModuleFiles[audit.v2], audit.iface)[1].table[1]
     IN /\ audit.slot <= Min(Len(t1), Len(t2))
        /\ audit' = [audit EXCEPT
                       !.agree = @ /\ t1[audit.slot] = t2[audit.slot],
                       !.slot = @ + 1]
  /\ UNCHANGED <<regVars, dispVars, com, sink, listener>>

\* The common prefix is exhausted.
audit_end ==
  /\ audit.stage = "slots"
  /\ LET t1 == Declared(ModuleFiles[audit.v1], audit.iface)[1].table[1]
         t2 == Declared(ModuleFiles[audit.v2], audit.iface)[1].table[1]
     IN audit.slot > Min(Len(t1), Len(t2))
  /\ audit' = [audit EXCEPT !.stage = "done"]
  /\ UNCHANGED <<regVars, dispVars, com, sink, listener>>

TableInit ==
  /\ ResolvedInit(RefMachines)
  /\ com = NoObject
  /\ sink = NoSink
  /\ listener = NoListener
  /\ audit = NoAudit

TableNext ==
  \/ audit_begin
  \/ audit_slot
  \/ audit_end

TableSpec == TableInit /\ [][TableNext]_vars

TupleReleases ==
  { [major |-> 6,  minor |-> 3, build |-> 9600],
    [major |-> 6,  minor |-> 3, build |-> 22000],
    [major |-> 10, minor |-> 0, build |-> 19045],
    [major |-> 10, minor |-> 0, build |-> 22000],
    [major |-> 10, minor |-> 0, build |-> 22621] }

\* The UBR value is absent, 2215, or -1 as an i32.
TupleMachines ==
  [rtl_ok : BOOLEAN, release : TupleReleases,
   ubr : {None, Some(<<167, 8, 0, 0>>), Some(<<255, 255, 255, 255>>)}]

TupleInit == RegInit(TupleMachines, [t \in Threads |-> "idle"])

TupleSpec == TupleInit /\ [][Next]_vars

\* The full tuple of a declared version: every version module is a build of
\* Windows 10.0, the build and the patch are those of its name.
FullTuple(v) ==
  LET full_ver == windows_version(v)[1]
  IN <<U32(10), U32(0), full_ver[1], full_ver[2]>>

\* The full tuple of the detected version, an absent patch being the
\* largest.
DetectedTuple(m) ==
  <<U32(m.release.major), U32(m.release.minor), U32(m.release.build),
    unwrap_or(read_patch_version_from_registry(m.ubr), U32_MAX)>>

\* The lexicographic order of tuples of four u32.
FullTupleLe(a, b) ==
  \/ u32_lt(a[1], b[1])
  \/ a[1] = b[1] /\ u32_lt(a[2], b[2])
  \/ a[1] = b[1] /\ a[2] = b[2] /\ TupleLe(<<a[3], a[4]>>, <<b[3], b[4]>>)

C26_DeclarationOrder ==
  LET declared == DeclaredTable
  IN /\ \A i, j \in 1..Len(ALL) :
          i < j => /\ TupleLt(declared[ALL[i]], declared[ALL[j]])
                   /\ ALL[i] < ALL[j]
     /\ \A v \in WindowsVersion :
          /\ TupleLe(declared[v], declared[WindowsVersion_default])
          /\ (~IsSome(split_once(split_once(as_str(v), "_")[1][2], "_")))
                => declared[v][2] = U32(0)
     /\ \A t \in Threads : \A k \in 1..Len(rets[t]) :
          ~os.rtl_ok =>
            \A v \in WindowsVersion :
              TupleLe(declared[v], declared[rets[t][k].value])

\* RtlGetVersion failed and WindowsVersion::get returned the default.
C26_Witness ==
  /\ ~os.rtl_ok
  /\ \E t \in Threads :
       /\ Len(rets[t]) >= 1
       /\ rets[t][1].value = WindowsVersion_default
       /\ rets[t][1].value = Len(VersionNames)

\* The registry gave no patch: the read failed or the value is negative.
PatchUnavailable ==
  ~IsSome(os.ubr) \/ i32_from_le_bytes(os.ubr[1]) < 0

\* C27: when RtlGetVersion succeeded and the patch is unavailable,
\* resolution returns a declared version all the same, the patch local is
\* None, and the version returned is the greatest of those whose build is at
\* most the detected build, whatever their patch: the absent patch counts as
\* greater than every declared patch.
C27_AbsentPatchIsLargest ==
  LET declared == DeclaredTable
  IN (os.rtl_ok /\ PatchUnavailable) =>
       /\ \A t \in Threads :
            /\ patch_version[t] = None
            /\ \A k \in 1..Len(rets[t]) :
                 /\ rets[t][k].value \in WindowsVersion
                 /\ \A v \in WindowsVersion :
                      u32_le(declared[v][1], U32(os.release.build))
                        => TupleLe(declared[v], declared[rets[t][k].value])
       /\ \A v \in WindowsVersion :
            u32_le(declared[v][1], U32(os.release.build))
              <=> \E i \in 1..Len(filter_supported(ALL, U32(os.release.build), None)) :
                    filter_supported(ALL, U32(os.release.build), None)[i][1] = v

\* The registry holds -1 for UBR on build 22621 and resolution returned
\* build_22621_3155, whose declared patch is above zero.
C27_Witness ==
  /\ os.rtl_ok
  /\ IsSome(os.ubr) /\ PatchUnavailable
  /\ os.release.build = 22621
  /\ \E t \in Threads :
       /\ Len(rets[t]) >= 1
       /\ as_str(rets[t][1].value)
            = <<"b","u","i","l","d","_","2","2","6","2","1","_","3","1","5","5">>


\* ========================================= part 8: IID() and query_service
\* GUID::zeroed()
GUID_zeroed == "00000000-0000-0000-0000-000000000000"

\* stringify!($version) as one string, the name of the version's module.
RECURSIVE stringify(_)
stringify(chars) ==
  IF chars = <<>> THEN "" ELSE chars[1] \o stringify(Tail(chars))

\* The IID of an interface in a module that is not among the files: an
\* identifier hard-coded there, of which only the place is known.
UnknownIID(module, iface) == module \o "::" \o iface \o "::IID"

\* self::$version::$name::IID, the associated constant of the interface
\* type of one version module.
ModuleIID(v, iface) ==
  LET module == stringify(as_str(v))
  IN IF \E i \in 1..Len(ModuleFiles) : ModuleFiles[i] = module
     THEN Declared(module, iface)[1].iid
     ELSE UnknownIID(module, iface)

\* Mutant of IID_of: the match has no arm for the last declared version.
IID_of_partial(iface, win_ver) ==
  IF \E i \in 1..(Len(ALL) - 1) : ALL[i] = win_ver
  THEN ModuleIID(win_ver, iface)
  ELSE GUID_zeroed

\* $name::IID(): match WindowsVersion::get() { $(WindowsVersion::$version =>
\* self::$version::$name::IID,)* _ => GUID::zeroed() }, with one arm per
\* declared version since every interface is supported with all_versions:
\* true. win_ver is what WindowsVersion::get() returned.
IID_of(iface, win_ver) ==
  IF \E i \in 1..Len(ALL) : ALL[i] = win_ver
  THEN ModuleIID(win_ver, iface)
  ELSE GUID_zeroed

\* The interfaces that have a query_service function, each with the service
\* it asks the provider for.
guid_service(iface) ==
  CASE iface = "IApplicationViewCollection" -> "IApplicationViewCollection::IID()"
    [] iface = "IVirtualDesktopNotificationService" -> "CLSID_IVirtualNotificationService"
    [] iface = "IVirtualDesktopManagerInternal" -> "CLSID_VirtualDesktopManagerInternal"
    [] iface = "IVirtualDesktopPinnedApps" -> "CLSID_VirtualDesktopPinnedApps"

QueryInterfaces ==
  {"IApplicationViewCollection", "IVirtualDesktopNotificationService",
   "IVirtualDesktopManagerInternal", "IVirtualDesktopPinnedApps"}

\* What the provider may leave in obj: null (0) or a pointer.
Pointers == {0, 1}

\* A caller asks for the IID of an interface.
lookup_IID ==
  /\ call.stage = "none"
  /\ \E iface \in InterfaceNames :
       call' = [NoCall EXCEPT !.kind = "IID", !.iface = iface, !.stage = "iid"]
  /\ UNCHANGED <<regVars, calls_made, missing_module, objVars>>

\* $name::query_service(provider) is entered: let mut obj = null_mut().
query_service ==
  /\ call.stage = "none"
  /\ \E iface \in QueryInterfaces :
       call' = [NoCall EXCEPT !.kind = "query_service", !.iface = iface,
                              !.stage = "iid", !.concrete = <<0>>]
  /\ UNCHANGED <<regVars, calls_made, missing_module, objVars>>

\* $name::IID() is evaluated, WindowsVersion::get() answering from the
\* initialised cell. For a lookup the GUID is the result; for query_service
\* it becomes the riid argument.
evaluate_IID ==
  /\ call.stage = "iid"
  /\ INIT.state = "Complete"
  /\ LET win_ver == INIT.value[1]
         iid == IID_of(call.iface, win_ver)
     IN call' = [call EXCEPT
                   !.win_ver = win_ver,
                   !.args = <<iid>>,
                   !.ret = IF call.kind = "IID" THEN Some(iid) ELSE None,
                   !.stage = IF call.kind = "IID" THEN "done" ELSE "provider"]
  /\ UNCHANGED <<regVars, calls_made, missing_module, objVars>>

\* provider.query_service(&guid_service, &riid, &mut obj): the shell answers
\* with a status and may have written obj.
provider_query_service ==
  /\ call.stage = "provider"
  /\ \E hr \in Statuses, obj \in Pointers :
       call' = [call EXCEPT
                  !.fwd = <<[guid_service |-> guid_service(call.iface),
                             riid |-> call.args[1]]>>,
                  !.status = Some(hr),
                  !.concrete = <<obj>>,
                  !.stage = "answered"]
  /\ UNCHANGED <<regVars, calls_made, missing_module, objVars>>

\* .as_result()?; assert_eq!(obj.is_null(), false); Ok($name::from_raw(obj)):
\* Err with the status, a panic for a null obj after S_OK, or the handle
\* made of obj, which takes over the reference the provider gave.
query_service_return ==
  /\ call.stage = "answered"
  /\ LET hr == call.status[1]
         obj == call.concrete[1]
     IN call' = IF hr # S_OK
                THEN [call EXCEPT !.stage = "done",
                        !.ret = Some([ok |-> FALSE, code |-> hr, ptr |-> 0,
                                      arm |-> 0])]
                ELSE IF obj = 0
                THEN [call EXCEPT !.stage = "panicked"]
                ELSE [call EXCEPT !.stage = "done",
                        !.ret = Some([ok |-> TRUE, code |-> S_OK, ptr |-> obj,
                                      arm |-> from_raw(call.win_ver)[1]])]
  /\ UNCHANGED <<regVars, calls_made, missing_module, objVars>>

QueryInit ==
  /\ ResolvedInit(DispatchMachines)
  /\ com = NoObject
  /\ sink = NoSink
  /\ listener = NoListener
  /\ audit = NoAudit

QueryNext ==
  \/ lookup_IID
  \/ query_service
  \/ evaluate_IID
  \/ provider_query_service
  \/ query_service_return

QuerySpec == QueryInit /\ [][QueryNext]_vars

\* C28: the GUID IID() yields is the one the module of the resolved version
\* declares for the interface, and is not the zeroed GUID; query_service
\* passes that GUID as riid; and when it returns, it returns the failure
\* status as an error or a handle with a non-null pointer, cast by the
\* resolved version.
C28_IIDOfResolvedVersion ==
  /\ call.args # <<>> =>
       /\ call.win_ver = INIT.value[1]
       /\ call.args[1] = ModuleIID(INIT.value[1], call.iface)
       /\ call.args[1] # GUID_zeroed
       /\ call.kind = "IID" => call.ret = Some(call.args[1])
  /\ call.fwd # <<>> =>
       /\ call.fwd[1].riid = ModuleIID(INIT.value[1], call.iface)
       /\ call.fwd[1].guid_service = guid_service(call.iface)
  /\ (call.kind = "query_service" /\ call.stage = "done") =>
       LET r == call.ret[1]
       IN IF r.ok
          THEN /\ r.ptr # 0 /\ r.ptr = call.concrete[1]
               /\ call.status = Some(S_OK)
               /\ r.arm = INIT.value[1]
          ELSE /\ r.code # S_OK
               /\ call.status = Some(r.code)
  /\ (call.kind = "query_service" /\ call.stage = "panicked") =>
       call.status = Some(S_OK) /\ call.concrete[1] = 0

\* On a machine resolved to build_22631_2428, query_service of
\* IVirtualDesktopManagerInternal asked for that module's IID and returned
\* a handle.
C28_Witness ==
  /\ call.kind = "query_service"
  /\ call.stage = "done"
  /\ call.iface = "IVirtualDesktopManagerInternal"
  /\ stringify(as_str(INIT.value[1])) = "build_22631_2428"
  /\ call.fwd[1].riid = "A3175F2D-239C-4BD2-8AA0-EEBA8B0B138E"
  /\ call.ret[1].ok

\* The thread is at recv_timeout with no Quit in the channel, the shell it
\* is connected to answers and its registration succeeded.
ConnectedAndRegistered ==
  /\ listener.stage = "loop"
  /\ ~listener.quit
  /\ is_connected
  /\ IsSome(listener.wrapper)

\* This step is the thread's: neither the owner nor the shell has moved.
ListenerThreadStep ==
  /\ ~OwnerStep
  /\ listener'.shell = listener.shell
  /\ listener' # listener

\* C29: a timeout that finds the shell connected and the registration
\* successful calls neither unregister nor register: the wrapper with its
\* cookie, the record of the calls and what the shell holds stay as they
\* are, and the thread is back at recv_timeout.
C29_HealthyTickChangesNothing ==
  [][ (ConnectedAndRegistered /\ ListenerThreadStep) =>
        /\ listener'.ticks = listener.ticks + 1
        /\ listener' = [listener EXCEPT !.ticks = listener'.ticks]
        /\ ~RegisterStep /\ ~DropStep ]_vars

\* A timeout has passed over a registration that the first register made
\* and that the shell still holds.
C29_Witness ==
  /\ listener.ticks >= 1
  /\ listener.stage = "loop"
  /\ Registered
  /\ listener.last.op = "register"
  /\ listener.last.ok
  /\ listener.outstanding = {listener.wrapper[1]}

\* The event each stable callback stands for, "" for none.
DesktopEventOf(fname) ==
  CASE fname = "virtual_desktop_created" -> "DesktopCreated"
    [] fname = "virtual_desktop_destroyed" -> "DesktopDestroyed"
    [] fname = "current_virtual_desktop_changed" -> "DesktopChanged"
    [] fname = "virtual_desktop_moved" -> "DesktopMoved"
    [] fname = "virtual_desktop_name_changed" -> "DesktopNameChanged"
    [] fname = "virtual_desktop_wallpaper_changed" -> "DesktopWallpaperChanged"
    [] fname = "view_virtual_desktop_changed" -> "WindowChanged"
    [] OTHER -> ""

\* C30: one invocation of a stable callback hands at most one event to the
\* sender. The callbacks of created, destroyed, current-changed, moved,
\* name-changed and wallpaper-changed hand over their event, with the
\* callback's arguments in their order, or nothing when a conversion
\* failed; view-changed hands over WindowChanged whether or not the window
\* was read; destroy-begin, destroy-failed, switched and remote-connected
\* hand over nothing.
C30_OneEventPerCallback ==
  /\ [](Len(sink.events) <= 1 /\ Len(sink.stable) <= 1)
  /\ [][ sink.stage = "stable" =>
           LET c == sink.stable[Len(sink.stable)]
               e == DesktopEventOf(c.fname)
           IN CASE e = "" ->
                     /\ sink'.stage = "returned"
                     /\ sink'.events = <<>>
                [] e = "WindowChanged" ->
                     /\ sink'.stage = "send"
                     /\ Len(sink'.events) = 1
                     /\ sink'.events[1].event = e
                     /\ sink'.events[1].args =
                          <<IF sink'.raised = "window" THEN 0 ELSE c.args[1].val>>
                [] OTHER ->
                     \/ /\ sink'.raised = "conversion"
                        /\ sink'.stage = "returned"
                        /\ sink'.events = <<>>
                     \/ /\ sink'.raised = "none"
                        /\ sink'.stage = "send"
                        /\ sink'.events =
                             <<[event |-> e,
                                args |-> [k \in 1..Len(c.args) |-> c.args[k].val]]>> ]_vars

\* The shell reported a change of the current desktop on build_22000 and
\* the callback hands DesktopChanged to the sender, old before new.
C30_Witness ==
  /\ sink.stage = "send"
  /\ sink.module = "build_22000"
  /\ sink.stable[1].fname = "current_virtual_desktop_changed"
  /\ sink.events[1].event = "DesktopChanged"
  /\ sink.events[1].args = <<sink.stable[1].args[1].val, sink.stable[1].args[2].val>>
  /\ sink.events[1].args[1] # sink.events[1].args[2]

====
